---- MODULE Spec2Model ----
(***************************************************************************)
(* Model of the cfl grid engine: grid sizing (Grid), the Brownian state    *)
(* process model (cflBrownian::Model), Slice and its operators, the        *)
(* similar-model decorator (TargetModel) with the Black and Hull-White     *)
(* rollback closures, and the indicator strategies (cflInd).               *)
(*                                                                         *)
(* Numbers.  The source computes in double.  Here every real quantity is a *)
(* fixed-point integer: grid quantities (variance, width, step, interval)  *)
(* count units of 1/Res, Slice values count units of 1/One with            *)
(* One = 2*Res, so that the node coordinates -h(N-1)/2 + k*h are exact.    *)
(* Products and quotients of values round towards minus infinity.          *)
(* Time indexes are 0-based as in the source; sequences are 1-based, so    *)
(* the entry of event-time index t is m_uSize[t + 1].                      *)
(***************************************************************************)
EXTENDS Integers, Sequences, FiniteSets, TLC

\* Resolution of the fixed-point grid quantities (units per 1.0).
Res == 4
\* The Slice value 1.0.
One == 2 * Res
\* Longest sequence of public operations explored.
MaxOps == 3

\* cfl::EPS (1E-10) and cfl::VAR_EPS (1E-12) are below the resolution: each is the
\* smallest positive increment, and x > EPS of the source reads Exceeds(x, EPS).
EPS == 1
VAR_EPS == 1
OMEGA == 1000

----------------------------------------------------------------------------
(* Arithmetic helpers *)

Abs(x) == IF x < 0 THEN -x ELSE x

Max(x, y) == IF x >= y THEN x ELSE y

Min(x, y) == IF x <= y THEN x ELSE y

\* std::ceil of the quotient a/b, b > 0
Ceil(a, b) == -((-a) \div b)

\* std::sqrt, rounded down to the resolution
Sqrt(n) == CHOOSE r \in 0..(n + 1) : r * r <= n /\ (r + 1) * (r + 1) > n

\* the smallest power of two that is >= n: std::pow (2, std::ceil (std::log2 (n)))
RECURSIVE Pow2From(_, _)
Pow2From(p, n) == IF p >= n THEN p ELSE Pow2From(2 * p, n)

\* product and quotient of two Slice values
Mul(x, y) == (x * y) \div One

Div(x, y) == (x * One) \div y

\* x > eps for a grid quantity x and eps below the resolution
Exceeds(x, eps) == x >= eps

----------------------------------------------------------------------------
(* Grid sizing: cfl::Grid *)

\* a width that shrinks as the variance grows
widthGaussInverse(log4, dVar) == (2 * Res * Res) \div (dVar + Sqrt(dVar * (dVar + log4)) + 1) + EPS

\* widthGauss(dWidthQuality)(dVar); log4 is 4*log(dWidthQuality)
widthGauss(log4, dVar) == 2 * (dVar + Sqrt(dVar * (dVar + log4))) + EPS

\* a step that the step quality alone defines
stepQualityOnly(dH1, iUniformSteps, dVar) == dH1

\* step(dStepQuality, iUniformSteps)(dVar); dH1 is 1/dStepQuality
step(dH1, iUniformSteps, dVar) == Min(dH1, Sqrt((3 * dVar * Res) \div (2 * iUniformSteps)))

\* size()(dSize): dSize counts units of 1/Res
size(dSize) == Ceil(dSize, Res)

\* a size that is not rounded up to a power of two
size2Ceil(dSize) == Ceil(dSize, Res)

\* size2()(dSize)
size2(dSize) == Pow2From(1, Ceil(dSize, Res))

Policy(rSize, dSize) == IF rSize = "size2" THEN size2(dSize) ELSE size(dSize)

----------------------------------------------------------------------------
(* Construction of cflBrownian::Model *)

\* m_uTotalVar
TotalVar(rVar, rEventTimes) == [i \in 1..Len(rVar) |-> rVar[i] * (rEventTimes[i] - rEventTimes[1])]

\* the smallest increment of the total variance, OMEGA for one event time
RECURSIVE minVarFrom(_, _)
minVarFrom(rVar, i) == IF i > Len(rVar) THEN OMEGA ELSE Min(rVar[i] - rVar[i - 1], minVarFrom(rVar, i + 1))

minVar(rVar) == minVarFrom(rVar, 2)

\* the grid size of one event time
GridSize(rSize, log4, dH, dInterval, dVar) == Policy(rSize, Max(((dInterval + widthGauss(log4, dVar)) * Res) \div dH, 2 * Res) + EPS)

\* a constructor that does not compare the event times
CtorPreVarOnly(rVar, rEventTimes) ==
    /\ Len(rEventTimes) = Len(rVar)
    /\ \A i \in 2..Len(rVar) : TotalVar(rVar, rEventTimes)[i] > TotalVar(rVar, rEventTimes)[i - 1]
    /\ Exceeds(minVar(TotalVar(rVar, rEventTimes)), EPS)

\* the assertions of the constructor up to the computation of the sizes
CtorPre(rVar, rEventTimes) ==
    /\ Len(rEventTimes) = Len(rVar)
    /\ \A i \in 2..Len(rEventTimes) : rEventTimes[i] > rEventTimes[i - 1]
    /\ \A i \in 2..Len(rVar) : TotalVar(rVar, rEventTimes)[i] > TotalVar(rVar, rEventTimes)[i - 1]
    /\ Exceeds(minVar(TotalVar(rVar, rEventTimes)), EPS)

\* the fields of the constructed model
BrownianModel(rSize, log4, dH1, iUniformSteps, dP, rInd, rVar, rEventTimes, dInterval) ==
    LET tv == TotalVar(rVar, rEventTimes)
        h  == step(dH1, iUniformSteps, minVar(tv))
    IN  [m_uTotalVar |-> tv,
         m_uEventTimes |-> rEventTimes,
         m_dH |-> h,
         m_dP |-> dP,
         m_uInd |-> rInd,
         m_uSize |-> [i \in 1..Len(rEventTimes) |-> GridSize(rSize, log4, h, dInterval, tv[i])]]

\* POSTCONDITION of the constructor: the sizes do not decrease
CtorPost(uSize) == \A i \in 2..Len(uSize) : uSize[i] >= uSize[i - 1]

----------------------------------------------------------------------------
(* Gaussian rollback: the explicit scheme, cflGaussRollback::Explicit *)

\* the second differences of explicitStep, equal to the neighbours' at the ends
SecondDiff(v) ==
    LET n == Len(v)
        d == [k \in 1..n |-> IF k = 1 \/ k = n THEN 0 ELSE v[k + 1] - 2 * v[k] + v[k - 1]]
    IN  [k \in 1..n |-> IF k = 1 THEN d[2] ELSE IF k = n THEN d[n - 1] ELSE d[k]]

\* explicitStep with dP = qn/qd
explicitStep(v, qn, qd) ==
    LET rTemp == SecondDiff(v)
    IN  SubSeq([k \in 1..Len(v) |-> v[k] + (rTemp[k] * qn) \div qd], 1, Len(v))

\* m_iSteps of Explicit(dP = pn/pd, iSize, dH, dVar)
ExplicitSteps(pn, pd, dH, dVar) == Ceil(dVar * Res * pd, 2 * dH * dH * pn)

RECURSIVE ExplicitLoop(_, _, _, _)
ExplicitLoop(v, i, qn, qd) == IF i = 0 THEN v ELSE ExplicitLoop(explicitStep(v, qn, qd), i - 1, qn, qd)

\* Explicit::rollback after assign(iSize, dH, dVar): m_dQ = min(dVar/(2 dH^2 m_iSteps), dP)
ExplicitRollback(v, pn, pd, dH, dVar) ==
    LET steps == ExplicitSteps(pn, pd, dH, dVar)
        qn0   == dVar * Res
        qd0   == 2 * dH * dH * steps
        small == qn0 * pd <= pn * qd0
    IN  IF Len(v) >= 3
        THEN ExplicitLoop(v, steps, IF small THEN qn0 ELSE pn, IF small THEN qd0 ELSE pd)
        ELSE v

----------------------------------------------------------------------------
(* Indicators: cflInd *)

\* Naive::indicator
NaiveIndicator(v, dBarrier, one) == [k \in 1..Len(v) |-> IF v[k] >= dBarrier THEN one ELSE 0]

\* the value linearInd leaves in rIndL for the neighbours dL, dR
linearIndL(dL, dR, one) ==
    IF dL # dR
    THEN (Abs(Max(dL, 0) - Max(dR, 0)) * one) \div Abs(dL - dR)
    ELSE IF dL >= 0 THEN one ELSE 0

\* rIndL when the sweep reaches node k (k = 1: its initial value)
LinearCarry(w, k, one) == IF k = 1 THEN (IF w[1] < 0 THEN 0 ELSE one) ELSE linearIndL(w[k - 1], w[k], one)

\* Linear::indicator
LinearIndicator(v, dBarrier, one) ==
    LET n == Len(v)
        w == [k \in 1..n |-> v[k] - dBarrier]
        atEnd == LinearCarry(w, n, one) \div 2
    IN  [k \in 1..n |->
            IF k < n
            THEN (LinearCarry(w, k, one) + LinearCarry(w, k + 1, one)) \div 2
            ELSE IF atEnd >= 0 THEN atEnd + one \div 2 ELSE atEnd]

\* the square of dX/dY in units of 1/one
Sq(dX, dY, one) == (dX * dX * one) \div (dY * dY)

\* the value quadInd leaves in rIndL for the neighbours dL, dR
quadIndL(dL, dR, one) ==
    IF (dL < 0 /\ dR >= 0) \/ (dL >= 0 /\ dR < 0)
    THEN one - Sq(dL, dL - dR, one)
    ELSE IF dL >= 0 /\ dR >= 0 THEN one ELSE 0

\* what quadInd adds to the carried value for the neighbours dL, dR
quadIndAdd(dL, dR, one) ==
    IF dL < 0 /\ dR >= 0 THEN Sq(dR, dR - dL, one)
    ELSE IF dL >= 0 /\ dR < 0 THEN one - Sq(dR, dR - dL, one)
    ELSE IF dL >= 0 /\ dR >= 0 THEN one ELSE 0

QuadCarry(w, k, one) == IF k = 1 THEN (IF w[1] < 0 THEN 0 ELSE one) ELSE quadIndL(w[k - 1], w[k], one)

\* Quadratic::indicator
QuadraticIndicator(v, dBarrier, one) ==
    LET n == Len(v)
        w == [k \in 1..n |-> v[k] - dBarrier]
        atEnd == QuadCarry(w, n, one) \div 2
    IN  [k \in 1..n |->
            IF k < n
            THEN (QuadCarry(w, k, one) + quadIndAdd(w[k], w[k + 1], one)) \div 2
            ELSE IF atEnd >= 0 THEN atEnd + one \div 2 ELSE atEnd]

\* Ind::indicator: dispatch on the implementation
Indicator(ind, v, dBarrier, one) ==
    CASE ind = "naive" -> NaiveIndicator(v, dBarrier, one)
      [] ind = "linear" -> LinearIndicator(v, dBarrier, one)
      [] ind = "quadratic" -> QuadraticIndicator(v, dBarrier, one)

----------------------------------------------------------------------------
(* State *)

VARIABLES
    model,   \* the cflBrownian::Model: m_uTotalVar, m_uEventTimes, m_dH, m_uSize, m_uInd
    target,  \* the TargetModel built on it by cfl::similar: m_uRollback
    slice,   \* the Slice objects: m_pModel, m_iTime, m_uDependence and the storage that m_uValues owns
    heap,    \* the contents of the storage of the value arrays
    owner,   \* the model each Slice belongs to for its user
    pc,      \* the position inside a call of a TargetModel member
    lastOp,  \* the latest public operation and the Slice it worked on
    calls,   \* how often IModel::rollback of each model was entered by the latest operation
    failed,  \* an assertion has failed and the program is aborted
    nOps,    \* number of public operations so far
    input,   \* the arguments of a function called on its own
    output,  \* and what it returned
    handles, \* the AssetModel and InterestRateModel handles: the object m_pModel points to
    objects  \* the IAssetModel and IInterestRateModel objects

vars == <<model, target, slice, heap, owner, pc, lastOp, calls, failed, nOps, input, output, handles, objects>>

\* the Slice variables of the client and the place of a returned Slice
Ret == 0
Vars == {1, 2}
\* the variables the client changes in place and passes to the functions of one Slice
Targets == {1}
Slots == {Ret} \cup Vars

NoDep == << >>
Dep0 == <<0>>

Idle == [at |-> "idle", op |-> "none", s |-> Ret, arg |-> 0, pre |-> << >>]

\* a failed assertion ends the program
Failed(op, s) == failed' = TRUE /\ lastOp' = [op |-> op, s |-> s] /\ UNCHANGED <<model, target, slice, heap, owner, pc, nOps, input, output, handles, objects>>

NoCalls == [base |-> 0, dec |-> 0]

\* the value array of the Slice in slot i
Val(i) == heap[slice[i].m_uValues]

\* the Slice in slot i with its values
View(i) == [m_pModel |-> slice[i].m_pModel, m_iTime |-> slice[i].m_iTime, m_uDependence |-> slice[i].m_uDependence, m_uValues |-> Val(i)]

\* the Slice S held in storage st
Hdr(S, st) == [m_pModel |-> S.m_pModel, m_iTime |-> S.m_iTime, m_uDependence |-> S.m_uDependence, m_uValues |-> st]

\* the storage a newly constructed Slice in slot d allocates for its values
NewStorage(d) == d

\* a copy that shares the values of the Slice it is copied from
CopyStorageShared(d, src) == slice[src].m_uValues

\* the storage of the values of a Slice copy-constructed in slot d from the Slice in slot src
\* (std::valarray copies the elements)
CopyStorage(d, src) == NewStorage(d)

TimeIndexes == 0..(Len(model.m_uSize) - 1)

----------------------------------------------------------------------------
(* cflBrownian::Model *)

BrownianEventTimes == model.m_uEventTimes

BrownianNumberOfStates == 1

BrownianOrigin == <<0>>

BrownianNumberOfNodes(iTime, rDependence) == IF Len(rDependence) = 0 THEN 1 ELSE model.m_uSize[iTime + 1]

\* a grid that starts at 0
BrownianStateFromZero(iTime) ==
    LET iSize == model.m_uSize[iTime + 1]
    IN  [m_pModel |-> "base", m_iTime |-> iTime, m_uDependence |-> Dep0,
         m_uValues |-> [k \in 1..iSize |-> 2 * model.m_dH * (k - 1)]]

BrownianState(iTime) ==
    LET iSize == model.m_uSize[iTime + 1]
    IN  [m_pModel |-> "base", m_iTime |-> iTime, m_uDependence |-> Dep0,
         m_uValues |-> [k \in 1..iSize |-> -(model.m_dH * (iSize - 1)) + 2 * model.m_dH * (k - 1)]]

BrownianAddDependence(S, rDependence) ==
    IF Len(S.m_uDependence) = 0 /\ Len(rDependence) = 1
    THEN [S EXCEPT !.m_uDependence = rDependence,
                   !.m_uValues = [k \in 1..model.m_uSize[S.m_iTime + 1] |-> S.m_uValues[1]]]
    ELSE S

\* the variance between the event times of S and iTime
RollbackVar(S, iTime) == model.m_uTotalVar[S.m_iTime + 1] - model.m_uTotalVar[iTime + 1]

\* the preconditions and assertions of rollback
BrownianRollbackPre(S, iTime) ==
    /\ Len(S.m_uDependence) <= 1
    /\ S.m_pModel = "base"
    /\ S.m_iTime > iTime
    /\ Exceeds(RollbackVar(S, iTime), VAR_EPS)
    /\ Len(S.m_uValues) > 0
    /\ Len(S.m_uValues) > 1 => 10000 * model.m_dH * model.m_dH <= 15001 * RollbackVar(S, iTime) * Res
    /\ BrownianNumberOfNodes(iTime, S.m_uDependence) <= Len(S.m_uValues)

\* a rollback that keeps all the entries
WindowAll(v, iSize1) == v

\* the first iSize1 entries
WindowLeft(v, iSize1) == [k \in 1..iSize1 |-> v[k]]

\* the values kept by rollback: the centred window of iSize1 entries
Window(v, iSize1) == [k \in 1..iSize1 |-> v[(Len(v) - iSize1) \div 2 + k]]

\* a rollback that leaves the time index where it was
BrownianRollbackSameTime(S, iTime) == S

BrownianRollback(S, iTime) ==
    LET rolled == IF Len(S.m_uValues) > 1
                  THEN ExplicitRollback(S.m_uValues, model.m_dP[1], model.m_dP[2], model.m_dH, RollbackVar(S, iTime))
                  ELSE S.m_uValues
        iSize1 == BrownianNumberOfNodes(iTime, S.m_uDependence)
    IN  [S EXCEPT !.m_iTime = iTime,
                  !.m_uValues = IF iSize1 < Len(rolled) THEN Window(rolled, iSize1) ELSE rolled]

\* the nodes m_uInterp is assigned: the states of the time index against the values of the Slice
BrownianInterpolate(S) == [arg |-> BrownianState(S.m_iTime).m_uValues, val |-> S.m_uValues]

BrownianIndicator(S, dBarrier) == [S EXCEPT !.m_uValues = Indicator(model.m_uInd, S.m_uValues, dBarrier, One)]

----------------------------------------------------------------------------
(* TargetModel and the dispatch through IModel *)

\* Slice::assign (const IModel &)
AssignModel(S, m) == [S EXCEPT !.m_pModel = m]

\* rSlice.assign (model ()) at the start of a member of TargetModel
TargetCall(S) == AssignModel(S, "base")

\* a member that returns without assigning *this
TargetReturnBase(S) == S

\* rSlice.assign (*this) at its end
TargetReturn(S) == AssignModel(S, "dec")

TargetState(iTime) == TargetReturn(BrownianState(iTime))

TargetEventTimes == BrownianEventTimes

TargetNumberOfStates == BrownianNumberOfStates

TargetOrigin == BrownianOrigin

TargetNumberOfNodes(iTime, rDependence) == BrownianNumberOfNodes(iTime, rDependence)

TargetAddDependence(S, rDependence) == TargetReturn(BrownianAddDependence(TargetCall(S), rDependence))

\* interpolate works on a copy uSlice of its argument
TargetInterpolate(S) == BrownianInterpolate(TargetCall(S))

NumberOfNodes(m, iTime, rDependence) == IF m = "dec" THEN TargetNumberOfNodes(iTime, rDependence) ELSE BrownianNumberOfNodes(iTime, rDependence)

State(m, iTime) == IF m = "dec" THEN TargetState(iTime) ELSE BrownianState(iTime)

AddDependence(m, S, rDependence) == IF m = "dec" THEN TargetAddDependence(S, rDependence) ELSE BrownianAddDependence(S, rDependence)

----------------------------------------------------------------------------
(* Slice *)

\* Slice (pModel, iTime, dValue)
Constant(m, iTime, dValue) == [m_pModel |-> m, m_iTime |-> iTime, m_uDependence |-> NoDep, m_uValues |-> <<dValue>>]

Op2(op, x, y) ==
    CASE op = "+" -> x + y
      [] op = "-" -> x - y
      [] op = "*" -> Mul(x, y)
      [] op = "/" -> Div(x, y)
      [] op = "max" -> Max(x, y)
      [] op = "min" -> Min(x, y)

\* operator= (double)
AssignDouble(S, dValue) == [S EXCEPT !.m_uDependence = NoDep, !.m_uValues = <<dValue>>]

\* operator+=, -=, *=, /= (double), and max, min with a number
ScalarOp(S, op, dValue) == [S EXCEPT !.m_uValues = [k \in 1..Len(S.m_uValues) |-> Op2(op, S.m_uValues[k], dValue)]]

\* the valarray operation rF of apply, defined for arrays of equal sizes
ElementWise(op, u1, u2) == [k \in 1..Len(u1) |-> Op2(op, u1[k], IF k <= Len(u2) THEN u2[k] ELSE u2[Len(u2)])]

Range(q) == {q[k] : k \in 1..Len(q)}

\* std::includes (a, b)
Includes(a, b) == Range(b) \subseteq Range(a)

\* a precondition that compares the models only
SamePreModelOnly(S1, S2) == S1.m_pModel = S2.m_pModel

\* the preconditions of apply and of the operators on two Slices
SamePre(S1, S2) == S1.m_pModel = S2.m_pModel /\ S1.m_iTime = S2.m_iTime

\* cflSlice::apply: the new rS1
apply(S1, S2, op) ==
    LET m  == S1.m_pModel
        D1 == S1.m_uDependence
        D2 == S2.m_uDependence
    IN  IF D1 = D2
        THEN [S1 EXCEPT !.m_uValues = ElementWise(op, S1.m_uValues, S2.m_uValues)]
        ELSE IF Len(D1) > Len(D2) /\ Includes(D1, D2)
        THEN [S1 EXCEPT !.m_uValues = ElementWise(op, S1.m_uValues, AddDependence(m, S2, D1).m_uValues)]
        ELSE IF Len(D2) > Len(D1) /\ Includes(D2, D1)
        THEN [AddDependence(m, S1, D2) EXCEPT !.m_uValues = ElementWise(op, AddDependence(m, S1, D2).m_uValues, S2.m_uValues)]
        ELSE [AddDependence(m, S1, D2) EXCEPT !.m_uValues = ElementWise(op, AddDependence(m, S1, D2).m_uValues, AddDependence(m, S2, D1).m_uValues)]

\* an operator that takes the shortcut on the size of the left operand
SliceOpLeft(S1, S2, op) == IF Len(S1.m_uValues) = 1 THEN ScalarOp(S2, op, S1.m_uValues[1]) ELSE apply(S1, S2, op)

\* operator+=, -=, *=, /= (const Slice &): the new *this
SliceOp(S1, S2, op) == IF Len(S2.m_uValues) = 1 THEN ScalarOp(S1, op, S2.m_uValues[1]) ELSE apply(S1, S2, op)

\* a Slice::rollback that calls the model whatever iTime is
RollbackCallsAlways(S, iTime) == 1

\* how often Slice::rollback (iTime) calls rollback of its model
RollbackCalls(S, iTime) == IF iTime < S.m_iTime THEN 1 ELSE 0

----------------------------------------------------------------------------
(* The rollback closures given to cfl::similar; S is a Slice of the base model *)

\* the discount curve rDiscount at time dTime
Discount(dTime) == One - dTime

\* std::exp of a Slice value, to first order and positive
Exp(x) == Max(One + x, 1)

\* Slice::rollback (iTime) of a Slice of the base model
SliceRollback(S, iTime) == IF RollbackCalls(S, iTime) = 1 THEN BrownianRollback(S, iTime) ELSE S

SliceRollbackPre(S, iTime) == iTime <= S.m_iTime /\ (RollbackCalls(S, iTime) = 1 => BrownianRollbackPre(S, iTime))

\* cflHullWhite::discount (iTime, dMaturity) for dMaturity the last event time
HWDiscount(iTime) ==
    LET dB == model.m_uEventTimes[Len(model.m_uEventTimes)] - model.m_uEventTimes[iTime + 1]
        dC == Mul(Div(Discount(model.m_uEventTimes[Len(model.m_uEventTimes)]), Discount(model.m_uEventTimes[iTime + 1])),
                  Exp(dB * dB * model.m_uTotalVar[iTime + 1]))
        uX == BrownianState(iTime)
    IN  [uX EXCEPT !.m_uValues = [k \in 1..Len(uX.m_uValues) |-> Max(Mul(Exp(uX.m_uValues[k] * dB), dC), 1)]]

\* the Slice a closure hands to Slice::rollback
ClosureArg(kind, S) == IF kind = "hullwhite" THEN SliceOp(S, HWDiscount(S.m_iTime), "/") ELSE S

ClosurePre(kind, S, iTime) ==
    /\ S.m_iTime >= iTime
    /\ S.m_pModel = "base"
    /\ SliceRollbackPre(ClosureArg(kind, S), iTime)

\* cflBlack::rollback
BlackClosure(S, iTime) ==
    ScalarOp(SliceRollback(S, iTime), "*", Div(Discount(model.m_uEventTimes[S.m_iTime + 1]), Discount(model.m_uEventTimes[iTime + 1])))

\* cflHullWhite::rollback
HullWhiteClosure(S, iTime) == SliceOp(SliceRollback(ClosureArg("hullwhite", S), iTime), HWDiscount(iTime), "*")

\* a TargetModel that discounts whatever closure it was given
ClosureDiscounted(kind, S, iTime) == BlackClosure(S, iTime)

\* m_uRollback (rSlice, iTime)
Closure(kind, S, iTime) ==
    CASE kind = "plain" -> SliceRollback(S, iTime)
      [] kind = "black" -> BlackClosure(S, iTime)
      [] kind = "hullwhite" -> HullWhiteClosure(S, iTime)

----------------------------------------------------------------------------
(* Inputs *)

\* the event times, the instantaneous variances and the initial interval of the models
EventTimes == <<0, 1, 2>>
VarSchedules == {<<1, 1, 1>>, <<4, 3, 3>>}
Intervals == {0}

\* the implementations given to cfl::brownian and cfl::similar
Setups == {<<"naive", "plain">>, <<"linear", "black">>, <<"quadratic", "hullwhite">>}

\* NGaussRollback::expl (dP = 1/3)
ExplP == <<1, 3>>

Models == {"base", "dec"}
ConstValues == {One}
Scalars == {2 * One}
Barriers == {0}
ArithOps == {"+", "-", "*", "/"}
MaxMinOps == {"max", "min"}

----------------------------------------------------------------------------
(* Steps *)

\* Slice (): no model, one value 0
DefaultSlice == Constant("null", 0, 0)

Init ==
    /\ \E rVar \in VarSchedules, su \in Setups, dInterval \in Intervals :
          /\ CtorPre(rVar, EventTimes)
          /\ model = BrownianModel("size", 0, Res, 1, ExplP, su[1], rVar, EventTimes, dInterval)
          /\ CtorPost(model.m_uSize)
          /\ target = [m_uRollback |-> su[2]]
    /\ slice = [i \in Slots |-> Hdr(DefaultSlice, NewStorage(i))]
    /\ heap = [i \in Slots |-> DefaultSlice.m_uValues]
    /\ owner = [i \in Slots |-> "null"]
    /\ pc = Idle
    /\ lastOp = [op |-> "init", s |-> Ret]
    /\ calls = NoCalls
    /\ failed = FALSE
    /\ nOps = 0
    /\ input = << >>
    /\ output = << >>
    /\ handles = << >>
    /\ objects = << >>

Ready == pc.at = "idle" /\ ~failed /\ nOps < MaxOps

Live(i) == slice[i].m_pModel # "null"

\* the operation op on slot s is complete or has entered a call of the TargetModel
Done(op, s) == lastOp' = [op |-> op, s |-> s] /\ nOps' = nOps + 1 /\ UNCHANGED <<model, target, failed, input, output, handles, objects>>

\* a precondition of operation op on slot s fails
Abort(op, s) == Failed(op, s) /\ UNCHANGED calls

\* the Slice in slot i becomes S, in the storage it has
InPlace(i, S) ==
    /\ slice' = [slice EXCEPT ![i] = Hdr(S, slice[i].m_uValues)]
    /\ heap' = [heap EXCEPT ![slice[i].m_uValues] = S.m_uValues]

\* a newly constructed Slice S in slot d
Fresh(d, S) ==
    /\ slice' = [slice EXCEPT ![d] = Hdr(S, NewStorage(d))]
    /\ heap' = [heap EXCEPT ![NewStorage(d)] = S.m_uValues]
    /\ owner' = [owner EXCEPT ![d] = S.m_pModel]

\* slot d holds a copy of the Slice in slot src, which the operation has turned into S
Copied(d, src, S) ==
    /\ slice' = [slice EXCEPT ![d] = Hdr(S, CopyStorage(d, src))]
    /\ heap' = [heap EXCEPT ![CopyStorage(d, src)] = S.m_uValues]
    /\ owner' = [owner EXCEPT ![d] = slice[src].m_pModel]

\* the operation works on the Slice in slot src itself (d = src) or on a copy of it in slot d
Place(d, src, S) == IF d = src THEN InPlace(d, S) /\ UNCHANGED owner ELSE Copied(d, src, S)

\* Slice a (&model, iTime, dValue)
NewConstant(d, m, iTime, dValue) ==
    /\ Ready
    /\ Fresh(d, Constant(m, iTime, dValue))
    /\ Done("constant", d)
    /\ calls' = NoCalls
    /\ UNCHANGED pc

\* Slice a = model.state (iTime, 0)
NewState(d, m, iTime) ==
    /\ Ready
    /\ Fresh(d, State(m, iTime))
    /\ Done("state", d)
    /\ calls' = NoCalls
    /\ UNCHANGED pc

\* a = b and Slice a (b)
CopySlice(d, src) ==
    /\ Ready /\ Live(src) /\ d # src
    /\ Copied(d, src, View(src))
    /\ Done("copy", d)
    /\ calls' = NoCalls
    /\ UNCHANGED pc

\* a = dValue
AssignDoubleStep(i, dValue) ==
    /\ Ready /\ Live(i)
    /\ InPlace(i, AssignDouble(View(i), dValue))
    /\ Done("assign", i)
    /\ calls' = NoCalls
    /\ UNCHANGED <<owner, pc>>

\* a op= dValue
ScalarAssign(i, op, dValue) ==
    /\ Ready /\ Live(i)
    /\ op = "/" => dValue # 0
    /\ InPlace(i, ScalarOp(View(i), op, dValue))
    /\ Done("scalar", i)
    /\ calls' = NoCalls
    /\ UNCHANGED <<owner, pc>>

\* a op= b
SliceAssign(i, j, op) ==
    /\ Ready /\ Live(i) /\ Live(j) /\ i # j
    /\ op = "/" => 0 \notin Range(Val(j))
    /\ IF SamePre(View(i), View(j))
       THEN /\ InPlace(i, SliceOp(View(i), View(j), op))
            /\ Done("sliceop", i)
            /\ calls' = NoCalls
            /\ UNCHANGED <<owner, pc>>
       ELSE Abort("sliceop", i)

\* a op b, max (a, b), min (a, b)
Binary(i, j, op) ==
    /\ Ready /\ Live(i) /\ Live(j) /\ i # j
    /\ op = "/" => 0 \notin Range(Val(j))
    /\ IF SamePre(View(i), View(j))
       THEN /\ Copied(Ret, i, IF op \in MaxMinOps THEN apply(View(i), View(j), op) ELSE SliceOp(View(i), View(j), op))
            /\ Done("binary", Ret)
            /\ calls' = NoCalls
            /\ UNCHANGED pc
       ELSE Abort("binary", Ret)

\* a op dValue, max (a, dValue), min (a, dValue)
ScalarBinary(i, op, dValue) ==
    /\ Ready /\ Live(i)
    /\ op = "/" => dValue # 0
    /\ Copied(Ret, i, ScalarOp(View(i), op, dValue))
    /\ Done("scalarbinary", Ret)
    /\ calls' = NoCalls
    /\ UNCHANGED pc

\* -a
Negate(i) ==
    /\ Ready /\ Live(i)
    /\ Fresh(Ret, [View(i) EXCEPT !.m_uValues = [k \in 1..Len(Val(i)) |-> -Val(i)[k]]])
    /\ Done("negate", Ret)
    /\ calls' = NoCalls
    /\ UNCHANGED pc

\* a call of a TargetModel member on slot s has assigned the base model
Enter(op, s, arg, S) == pc' = [at |-> "body", op |-> op, s |-> s, arg |-> arg, pre |-> S]

\* indicator (a, dBarrier)
IndicatorStep(i, dBarrier) ==
    /\ Ready /\ Live(i)
    /\ IF slice[i].m_pModel = "dec"
       THEN Copied(Ret, i, TargetCall(View(i))) /\ Enter("indicator", Ret, dBarrier, View(i))
       ELSE Copied(Ret, i, BrownianIndicator(View(i), dBarrier)) /\ UNCHANGED pc
    /\ Done("indicator", Ret)
    /\ calls' = NoCalls

\* model.addDependence (a, {0})
AddDependenceStep(i) ==
    /\ Ready /\ Live(i)
    /\ IF slice[i].m_pModel = "dec"
       THEN InPlace(i, TargetCall(View(i))) /\ Enter("addDependence", i, 0, View(i))
       ELSE InPlace(i, BrownianAddDependence(View(i), Dep0)) /\ UNCHANGED pc
    /\ Done("addDependence", i)
    /\ calls' = NoCalls
    /\ UNCHANGED owner

\* a.rollback (iTime) for d = i, rollback (a, iTime) for d = Ret
RollbackStep(d, i, iTime) ==
    /\ Ready /\ Live(i)
    /\ IF iTime > slice[i].m_iTime
       THEN Abort("rollback", d)
       ELSE IF RollbackCalls(View(i), iTime) = 0
       THEN Place(d, i, View(i)) /\ Done("rollback", d) /\ calls' = NoCalls /\ UNCHANGED pc
       ELSE IF slice[i].m_pModel = "dec"
       THEN /\ Place(d, i, TargetCall(View(i)))
            /\ Enter("rollback", d, iTime, View(i))
            /\ Done("rollback", d)
            /\ calls' = [base |-> 0, dec |-> 1]
       ELSE IF BrownianRollbackPre(View(i), iTime)
       THEN /\ Place(d, i, BrownianRollback(View(i), iTime))
            /\ Done("rollback", d)
            /\ calls' = [base |-> 1, dec |-> 0]
            /\ UNCHANGED pc
       ELSE Failed("rollback", d) /\ calls' = [base |-> 1, dec |-> 0]

\* interpolate (a)
Interpolate(i) ==
    /\ Ready /\ Live(i)
    /\ Len(slice[i].m_uDependence) = 1
    /\ output' = IF slice[i].m_pModel = "dec" THEN TargetInterpolate(View(i)) ELSE BrownianInterpolate(View(i))
    /\ lastOp' = [op |-> "interpolate", s |-> i]
    /\ nOps' = nOps + 1
    /\ calls' = NoCalls
    /\ UNCHANGED <<model, target, slice, heap, owner, pc, failed, input, handles, objects>>

\* the TargetModel member runs the closure or the member of the base model
TargetBody ==
    /\ pc.at = "body" /\ ~failed
    /\ IF pc.op = "rollback"
       THEN IF ClosurePre(target.m_uRollback, View(pc.s), pc.arg)
            THEN /\ InPlace(pc.s, Closure(target.m_uRollback, View(pc.s), pc.arg))
                 /\ calls' = [calls EXCEPT !.base = @ + 1]
                 /\ pc' = [pc EXCEPT !.at = "exit"]
                 /\ UNCHANGED failed
            ELSE failed' = TRUE /\ UNCHANGED <<slice, heap, calls, pc>>
       ELSE /\ InPlace(pc.s, IF pc.op = "indicator"
                             THEN BrownianIndicator(View(pc.s), pc.arg)
                             ELSE BrownianAddDependence(View(pc.s), Dep0))
            /\ pc' = [pc EXCEPT !.at = "exit"]
            /\ UNCHANGED <<calls, failed>>
    /\ UNCHANGED <<model, target, owner, lastOp, nOps, input, output, handles, objects>>

\* the TargetModel member assigns *this again and returns
TargetExit ==
    /\ pc.at = "exit" /\ ~failed
    /\ InPlace(pc.s, TargetReturn(View(pc.s)))
    /\ pc' = Idle
    /\ UNCHANGED <<model, target, owner, lastOp, calls, failed, nOps, input, output, handles, objects>>

Next ==
    \/ \E d \in Vars, m \in Models, t \in TimeIndexes, v \in ConstValues : NewConstant(d, m, t, v)
    \/ \E d \in Vars, m \in Models, t \in TimeIndexes : NewState(d, m, t)
    \/ \E d \in Vars, src \in Slots : CopySlice(d, src)
    \/ \E i \in Targets, v \in ConstValues : AssignDoubleStep(i, v)
    \/ \E i \in Targets, op \in ArithOps, v \in Scalars : ScalarAssign(i, op, v)
    \/ \E i \in Targets, j \in Vars, op \in ArithOps : SliceAssign(i, j, op)
    \/ \E i \in Vars, j \in Vars, op \in ArithOps \cup MaxMinOps : Binary(i, j, op)
    \/ \E i \in Targets, op \in MaxMinOps, v \in Scalars : ScalarBinary(i, op, v)
    \/ \E i \in Targets : Negate(i)
    \/ \E i \in Targets, b \in Barriers : IndicatorStep(i, b)
    \/ \E i \in Targets : AddDependenceStep(i)
    \/ \E i \in Targets, d \in Slots, t \in TimeIndexes : d \in {i, Ret} /\ RollbackStep(d, i, t)
    \/ \E i \in Targets : Interpolate(i)
    \/ TargetBody
    \/ TargetExit

Spec == Init /\ [][Next]_vars

----------------------------------------------------------------------------
(* The constructor of cflBrownian::Model on its own: SpecGrid *)

MaxVar == 3

\* the arguments of cfl::Brownian::model and of the Grid functions
GridEventTimes == {<<0, 1, 2>>, <<0, 2, 3>>, <<1, 1, 2>>}
GridVars == [1..3 -> 1..MaxVar]
GridSizes == {"size", "size2"}
GridLog4 == {0, Res, 3 * Res}
GridH1 == {1, Res}
GridUniformSteps == {1, 2}
GridIntervals == {0, Res}

GridInputs ==
    [rSize : GridSizes, log4 : GridLog4, dH1 : GridH1, iUniformSteps : GridUniformSteps,
     rVar : GridVars, rEventTimes : GridEventTimes, dInterval : GridIntervals]

\* no model yet
NoModel == [m_uTotalVar |-> << >>, m_uEventTimes |-> << >>, m_dH |-> 0, m_dP |-> ExplP, m_uInd |-> "naive", m_uSize |-> << >>]

\* the state before a function is called on its own
Alone ==
    /\ target = [m_uRollback |-> "plain"]
    /\ slice = [i \in Slots |-> Hdr(DefaultSlice, NewStorage(i))]
    /\ heap = [i \in Slots |-> DefaultSlice.m_uValues]
    /\ owner = [i \in Slots |-> "null"]
    /\ pc = Idle
    /\ lastOp = [op |-> "init", s |-> Ret]
    /\ calls = NoCalls
    /\ failed = FALSE
    /\ nOps = 0
    /\ output = << >>

\* no AssetModel or InterestRateModel
NoHandles == handles = << >> /\ objects = << >>

InitGrid == input \in GridInputs /\ model = NoModel /\ Alone /\ NoHandles

\* ASSERT (iSize * dH > dInterval + dW) for every event time
CtorSizeAssert(m, log4, dInterval) ==
    \A i \in 1..Len(m.m_uSize) : m.m_uSize[i] * m.m_dH > dInterval + widthGauss(log4, m.m_uTotalVar[i])

\* Model::Model: output is m_uSize as computed, the model exists if no assertion failed
Construct ==
    /\ lastOp.op = "init"
    /\ LET m == BrownianModel(input.rSize, input.log4, input.dH1, input.iUniformSteps, ExplP, "naive",
                              input.rVar, input.rEventTimes, input.dInterval)
       IN  IF ~CtorPre(input.rVar, input.rEventTimes)
           THEN Failed("precondition", Ret) /\ UNCHANGED calls
           ELSE IF ~CtorSizeAssert(m, input.log4, input.dInterval)
           THEN Failed("assertion", Ret) /\ UNCHANGED calls
           ELSE IF ~CtorPost(m.m_uSize)
           THEN /\ failed' = TRUE
                /\ output' = m.m_uSize
                /\ lastOp' = [op |-> "postcondition", s |-> Ret]
                /\ UNCHANGED <<model, target, slice, heap, owner, pc, calls, nOps, input, handles, objects>>
           ELSE /\ model' = m
                /\ output' = m.m_uSize
                /\ lastOp' = [op |-> "constructed", s |-> Ret]
                /\ UNCHANGED <<target, slice, heap, owner, pc, calls, failed, nOps, input, handles, objects>>

NextGrid == Construct

SpecGrid == InitGrid /\ [][NextGrid]_vars

\* C4: a Brownian model constructed from strictly increasing event times and
\* strictly increasing total variances, with Grid::widthGauss as width and
\* Grid::size or Grid::size2 as size, has gridSize(t_i) >= gridSize(t_{i-1}) for
\* every i >= 1: the postcondition of the constructor on the sizes never fails.
C4_GridMonotone ==
    /\ lastOp.op # "postcondition"
    /\ lastOp.op = "constructed" =>
          /\ output = model.m_uSize
          /\ \A i \in 2..Len(output) : output[i] >= output[i - 1]

\* a model with a decreasing instantaneous variance is constructed and its grid grows
C4_Witness ==
    /\ lastOp.op = "constructed"
    /\ input.rVar[3] < input.rVar[2]
    /\ input.rSize = "size"
    /\ output[1] < output[2] /\ output[2] < output[3]

----------------------------------------------------------------------------
(* Ind::indicator on its own: SpecInd *)

MaxLen == 3

IndValues == {-5 * One, -3 * One, -One, One, 3 * One}
IndArrays == UNION {[1..n -> IndValues] : n \in 1..MaxLen}
IndBarriers == {0, 2 * One}
Inds == {"naive", "linear", "quadratic"}

InitInd == input \in [uInd : Inds, rValues : IndArrays, dBarrier : IndBarriers] /\ model = NoModel /\ Alone /\ NoHandles

\* m_uInd.indicator (rValues, dBarrier): output is rValues after the call
IndicatorCall ==
    /\ lastOp.op = "init"
    /\ output' = Indicator(input.uInd, input.rValues, input.dBarrier, One)
    /\ lastOp' = [op |-> "indicator", s |-> Ret]
    /\ UNCHANGED <<model, target, slice, heap, owner, pc, calls, failed, nOps, input, handles, objects>>

NextInd == IndicatorCall

SpecInd == InitInd /\ [][NextInd]_vars

\* C5: for the linear and the quadratic indicator and an array of any length
\* >= 1, every output entry is exactly 0 if every input value is below the
\* barrier and exactly 1 if every input value is above it; the values -5, -3, -1
\* with the barrier 0 give 0, 0, 0.
C5_NoCrossing ==
    (lastOp.op = "indicator" /\ input.uInd \in {"linear", "quadratic"}) =>
        /\ (\A k \in 1..Len(input.rValues) : input.rValues[k] < input.dBarrier)
              => \A k \in 1..Len(output) : output[k] = 0
        /\ (\A k \in 1..Len(input.rValues) : input.rValues[k] > input.dBarrier)
              => \A k \in 1..Len(output) : output[k] = One

----------------------------------------------------------------------------
(* Properties of Slice and of the models under Spec *)

\* C1: every Slice that belongs to a model holds exactly as many values as its
\* model has nodes at the Slice's time index for the Slice's dependence,
\* whatever operations were applied to it.
C1_SizeInvariant ==
    \A i \in Slots : Live(i) =>
        Len(Val(i)) = NumberOfNodes(slice[i].m_pModel, slice[i].m_iTime, slice[i].m_uDependence)

\* a state-dependent Slice has been rolled back by the base model onto a smaller grid
C1_Witness ==
    /\ lastOp.op = "rollback" /\ ~failed /\ pc.at = "idle" /\ calls.base = 1
    /\ slice[lastOp.s].m_uDependence = Dep0
    /\ Len(Val(lastOp.s)) = model.m_uSize[slice[lastOp.s].m_iTime + 1]
    /\ Len(Val(lastOp.s)) < model.m_uSize[Len(model.m_uSize)]

\* what a op b is to be for a constant and a state-dependent Slice of one model and time index:
\* entry k is a[k] op b[k], the constant standing for each of its entries
BroadcastResult(S1, S2, op) ==
    [m_pModel |-> S1.m_pModel, m_iTime |-> S1.m_iTime, m_uDependence |-> Dep0,
     m_uValues |-> [k \in 1..NumberOfNodes(S1.m_pModel, S1.m_iTime, Dep0) |->
                      Op2(op, IF Len(S1.m_uDependence) = 0 THEN S1.m_uValues[1] ELSE S1.m_uValues[k],
                              IF Len(S2.m_uDependence) = 0 THEN S2.m_uValues[1] ELSE S2.m_uValues[k])]]

\* C2: for + - * /, a constant Slice c and a state-dependent Slice s of the same
\* model and time index, c op s and s op c depend on state 0 and hold one value
\* per node, entry k being value(c) op s[k], respectively s[k] op value(c): what
\* broadcasting c with addDependence and applying the operator elementwise gives.
C2_Broadcast ==
    [][\A i \in Vars, j \in Vars, op \in ArithOps :
          (/\ Binary(i, j, op)
           /\ SamePre(View(i), View(j))
           /\ Len(slice[i].m_uDependence) + Len(slice[j].m_uDependence) = 1)
          => /\ View(Ret)' = BroadcastResult(View(i), View(j), op)
             /\ Val(Ret)' = ElementWise(op, AddDependence(slice[i].m_pModel, View(i), Dep0).m_uValues,
                                             AddDependence(slice[j].m_pModel, View(j), Dep0).m_uValues)]_vars

\* a constant minus or over a state-dependent Slice has been computed, on a grid of several nodes
C2_Witness ==
    /\ lastOp.op = "binary" /\ ~failed
    /\ \E i \in Vars, j \in Vars, op \in {"-", "/"} :
          /\ Live(i) /\ Live(j) /\ SamePre(View(i), View(j))
          /\ slice[i].m_uDependence = NoDep /\ slice[j].m_uDependence = Dep0
          /\ Len(Val(j)) > 1 /\ 0 \notin Range(Val(j))
          /\ View(Ret) = BroadcastResult(View(i), View(j), op)

C6_ModelPointer ==
    [][/\ \A i \in Slots : owner'[i] # "null" =>
             slice'[i].m_pModel = IF owner'[i] = "dec" /\ pc'.at # "idle" /\ pc'.s = i THEN "base" ELSE owner'[i]
       /\ \A i \in Targets : Interpolate(i) => slice' = slice /\ heap' = heap]_vars

\* a rollback through the similar model is complete and the Slice has the similar model again
C6_Witness ==
    /\ lastOp.op = "rollback" /\ ~failed /\ pc.at = "idle"
    /\ calls = [base |-> 1, dec |-> 1]
    /\ owner[lastOp.s] = "dec"
    /\ slice[lastOp.s].m_pModel = "dec"

\* C7: a similar model has the event times, the number of states, the origin and
\* the numbers of nodes of its base model, its state (t, 0) has the time index,
\* dependence and values of the state of the base model, and with the plain
\* rollback of the base model as closure a rollback through the similar model
\* gives the time index, dependence and values of the rollback in the base model.
C7_Similar ==
    [][/\ TargetEventTimes' = BrownianEventTimes'
       /\ TargetNumberOfStates' = BrownianNumberOfStates'
       /\ TargetOrigin' = BrownianOrigin'
       /\ \A t \in TimeIndexes :
             /\ \A d \in {NoDep, Dep0} : TargetNumberOfNodes(t, d)' = BrownianNumberOfNodes(t, d)'
             /\ TargetState(t)' = AssignModel(BrownianState(t), "dec")'
       /\ \A i \in Slots :
             (TargetExit /\ pc.op = "rollback" /\ pc.s = i /\ target.m_uRollback = "plain")
                => View(i)' = AssignModel(BrownianRollback(AssignModel(pc.pre, "base"), pc.arg), "dec")]_vars

\* a state-dependent Slice has been rolled back through a similar model with the plain closure
C7_Witness ==
    /\ lastOp.op = "rollback" /\ ~failed /\ pc.at = "idle"
    /\ target.m_uRollback = "plain"
    /\ calls = [base |-> 1, dec |-> 1]
    /\ slice[lastOp.s].m_pModel = "dec"
    /\ slice[lastOp.s].m_uDependence = Dep0
    /\ Len(Val(lastOp.s)) > 1

\* C8: +=, -=, *=, /= and max, min of two Slices whose models or time indexes
\* differ fail their precondition, and no value, dependence or time index of
\* either operand has changed when they do.
C8_Mismatch ==
    [][\A i \in Vars, j \in Vars :
          (slice[i].m_pModel # slice[j].m_pModel \/ slice[i].m_iTime # slice[j].m_iTime) =>
             /\ \A op \in ArithOps : SliceAssign(i, j, op) => failed' /\ slice' = slice /\ heap' = heap
             /\ \A op \in ArithOps \cup MaxMinOps : Binary(i, j, op) => failed' /\ slice' = slice /\ heap' = heap]_vars

\* an operator has failed on two Slices of one model at different time indexes
C8_Witness ==
    /\ failed /\ lastOp.op \in {"sliceop", "binary"}
    /\ \E i \in Vars, j \in Vars :
          /\ Live(i) /\ Live(j)
          /\ slice[i].m_pModel = slice[j].m_pModel
          /\ slice[i].m_iTime # slice[j].m_iTime

\* C9: Slice::rollback (t) at the time index of the Slice changes nothing and
\* does not call rollback of the model of the Slice, a similar model included;
\* for a smaller t it calls rollback of that model exactly once; for a larger t
\* it fails its precondition.
C9_SliceRollback ==
    [][/\ calls'.base <= 1 /\ calls'.dec <= 1
       /\ \A i \in Targets, iTime \in TimeIndexes :
             RollbackStep(i, i, iTime) =>
                /\ iTime = slice[i].m_iTime =>
                      slice' = slice /\ heap' = heap /\ pc' = pc /\ calls' = NoCalls /\ ~failed'
                /\ iTime < slice[i].m_iTime =>
                      calls' = [m \in Models |-> IF m = slice[i].m_pModel THEN 1 ELSE 0]
                /\ iTime > slice[i].m_iTime =>
                      failed' /\ slice' = slice /\ heap' = heap /\ calls' = calls]_vars

\* a Slice of a similar model whose closure discounts was asked to roll back to its own time index
C9_Witness ==
    /\ lastOp.op = "rollback" /\ ~failed /\ pc.at = "idle"
    /\ calls = NoCalls
    /\ lastOp.s \in Targets
    /\ slice[lastOp.s].m_pModel = "dec"
    /\ target.m_uRollback # "plain"

\* C10: a step of an operation changes the model, time index, dependence and
\* values of no Slice but the one it is applied to or returns: the free
\* functions leave their arguments unchanged, op= leaves its right operand
\* unchanged, and changing a copy leaves the Slice it was copied from unchanged.
C10_Independent ==
    [][\A j \in Slots : j # lastOp'.s => View(j)' = View(j)]_vars

\* rollback (a, t) has returned a Slice at an earlier time index on a smaller grid than that of a
C10_Witness ==
    /\ lastOp.op = "rollback" /\ lastOp.s = Ret /\ ~failed /\ pc.at = "idle"
    /\ \E i \in Targets :
          /\ Live(i)
          /\ slice[Ret].m_iTime < slice[i].m_iTime
          /\ Len(Val(Ret)) < Len(Val(i))

----------------------------------------------------------------------------
(* AssetModel and InterestRateModel handles: SpecModels *)

\* an empty std::shared_ptr
NullObject == 0

HandleNames == {"a", "b"}
ObjectIds == 1..(Cardinality(HandleNames) + 1)
ModelKinds == {"black", "hullwhite"}
ModelVars == {1, 3}
ModelEventTimes == {<<0, 1>>, <<0, 1, 2>>, <<0, 2, 3>>, <<1, 2>>, <<0, 2, 1>>}

\* a destroyed object
NoObject == [kind |-> "none"]

\* uVar of the constructors: the squared volatility at each event time
ModelVar(dVar, rEventTimes) == [i \in 1..Len(rEventTimes) |-> dVar]

\* the assertions of BlackModel::BlackModel and cflHullWhite::Model::Model and of the Brownian model they construct
ModelPre(rData, rEventTimes, dInterval) ==
    /\ rEventTimes[1] = rData.initialTime
    /\ CtorPre(ModelVar(rData.dVar, rEventTimes), rEventTimes)
    /\ CtorPost(BrownianModel("size", 0, Res, 1, ExplP, "naive", ModelVar(rData.dVar, rEventTimes), rEventTimes, dInterval).m_uSize)

\* BlackModel::BlackModel, cflHullWhite::Model::Model: m_uModel is the similar model of the Brownian model uBrownian
ImplModel(kind, rData, rEventTimes, dInterval) ==
    [kind |-> kind, m_uData |-> rData, m_dInterval |-> dInterval,
     m_uModel |-> [uBrownian |-> BrownianModel("size", 0, Res, 1, ExplP, "naive", ModelVar(rData.dVar, rEventTimes), rEventTimes, dInterval),
                   m_uRollback |-> kind]]

\* newModel (rEventTimes) of the object obj
newModel(obj, rEventTimes) == ImplModel(obj.kind, obj.m_uData, rEventTimes, obj.m_dInterval)

\* AssetModel::eventTimes, InterestRateModel::eventTimes of handle h
HandleEventTimes(h) == objects[handles[h]].m_uModel.uBrownian.m_uEventTimes

\* the grid sizes of the model of handle h
HandleSizes(h) == objects[handles[h]].m_uModel.uBrownian.m_uSize

\* an operator new that writes the new model over the object of the handle
AllocateInPlace(h) == handles[h]

\* operator new: the place of the new object, free while the object of the handle is alive
Allocate(h) == CHOOSE id \in ObjectIds : objects[id] = NoObject /\ \A other \in ObjectIds : objects[other] = NoObject => id <= other

\* the objects when the handles are hs: std::shared_ptr destroys an object no handle points to
Owned(hs, objs) == [id \in ObjectIds |-> IF \E h \in HandleNames : hs[h] = id THEN objs[id] ELSE NoObject]

InitModels ==
    /\ \E kind \in ModelKinds, dVar \in ModelVars, rEventTimes \in ModelEventTimes :
          /\ ModelPre([initialTime |-> 0, dVar |-> dVar], rEventTimes, 0)
          /\ objects = [id \in ObjectIds |-> IF id = 1 THEN ImplModel(kind, [initialTime |-> 0, dVar |-> dVar], rEventTimes, 0) ELSE NoObject]
    /\ handles = [h \in HandleNames |-> IF h = "a" THEN 1 ELSE NullObject]
    /\ model = NoModel
    /\ input = << >>
    /\ Alone

\* AssetModel h (g) and h = g: the handles share the object
CopyHandle(h, g) ==
    /\ ~failed /\ nOps < MaxOps
    /\ h # g /\ handles[g] # NullObject /\ handles[h] # handles[g]
    /\ handles' = [handles EXCEPT ![h] = handles[g]]
    /\ objects' = Owned(handles', objects)
    /\ lastOp' = [op |-> "copyHandle", s |-> Ret]
    /\ nOps' = nOps + 1
    /\ UNCHANGED <<model, target, slice, heap, owner, pc, calls, failed, input, output>>

\* h.assignEventTimes (rEventTimes)
AssignEventTimes(h, rEventTimes) ==
    /\ ~failed /\ nOps < MaxOps
    /\ handles[h] # NullObject
    /\ IF rEventTimes[1] # HandleEventTimes(h)[1]
       THEN Failed("assignEventTimes", Ret) /\ UNCHANGED <<calls, handles, objects>>
       ELSE IF ~ModelPre(objects[handles[h]].m_uData, rEventTimes, objects[handles[h]].m_dInterval)
       THEN Failed("newModel", Ret) /\ UNCHANGED <<calls, handles, objects>>
       ELSE /\ handles' = [handles EXCEPT ![h] = Allocate(h)]
            /\ objects' = Owned(handles', [objects EXCEPT ![Allocate(h)] = newModel(objects[handles[h]], rEventTimes)])
            /\ lastOp' = [op |-> "assignEventTimes", s |-> Ret]
            /\ nOps' = nOps + 1
            /\ UNCHANGED <<model, target, slice, heap, owner, pc, calls, failed, input, output>>

NextModels ==
    \/ \E h \in HandleNames, g \in HandleNames : CopyHandle(h, g)
    \/ \E h \in HandleNames, rEventTimes \in ModelEventTimes : AssignEventTimes(h, rEventTimes)

SpecModels == InitModels /\ [][NextModels]_vars

\* C11: assignEventTimes on a handle whose first new event time is the initial
\* time gives the handle a newly constructed model with the given event times;
\* the previous model object is not changed, and another handle copied before
\* the call still has the old event times and grid sizes.
C11_AssignEventTimes ==
    [][\A h \in HandleNames, rEventTimes \in ModelEventTimes :
          (AssignEventTimes(h, rEventTimes) /\ ~failed') =>
             /\ HandleEventTimes(h)' = rEventTimes
             /\ handles'[h] # handles[h]
             /\ \A g \in HandleNames :
                   (g # h /\ handles[g] # NullObject) =>
                      /\ handles'[g] = handles[g]
                      /\ objects'[handles[g]] = objects[handles[g]]
                      /\ HandleEventTimes(g)' = HandleEventTimes(g)
                      /\ HandleSizes(g)' = HandleSizes(g)]_vars

\* one of two handles that shared an object has new event times and a larger last grid
C11_Witness ==
    /\ lastOp.op = "assignEventTimes" /\ ~failed
    /\ handles["a"] # NullObject /\ handles["b"] # NullObject
    /\ handles["a"] # handles["b"]
    /\ HandleEventTimes("a") # HandleEventTimes("b")
    /\ HandleSizes("a")[Len(HandleSizes("a"))] # HandleSizes("b")[Len(HandleSizes("b"))]

----------------------------------------------------------------------------
(* cfl::GaussRollback with delta and gamma: SpecGauss.  The arrays hold      *)
(* integers, the quotients by the variance are exact fractions <<n, d>>; the  *)
(* step dH and the variance dVar are whole numbers here, dH even.            *)

RECURSIVE Gcd(_, _)
Gcd(a, b) == IF b = 0 THEN a ELSE Gcd(b, a % b)

\* the fraction n/d in lowest terms, d > 0
Frac(n, d) == IF n = 0 THEN <<0, 1>> ELSE <<n \div Gcd(Abs(n), d), d \div Gcd(Abs(n), d)>>

\* the sums and products cancel the common factors first, to keep the numbers small
FracSub(f, g) ==
    LET c == Max(Gcd(f[2], g[2]), 1)
    IN  Frac(f[1] * (g[2] \div c) - g[1] * (f[2] \div c), (f[2] \div c) * g[2])

\* state (iSize, dH): uState[0] = -((iSize - 1) * dH) / 2., then steps of dH
state(iSize, dH) == [k \in 1..iSize |-> -(((iSize - 1) * dH) \div 2) + dH * (k - 1)]

\* the product of two std::valarray
Times(u, w) == [k \in 1..Len(u) |-> u[k] * w[k]]

\* PRECONDITION of the rollbacks with delta, and of Explicit::rollback
GaussPre(iSize, dVar) == Exceeds(dVar * Res, EPS) /\ iSize >= 3

\* rollback (rValues) of the scheme expl () after assign (iSize, dH, dVar)
Rollback1(v, dH, dVar) == ExplicitRollback(v, ExplP[1], ExplP[2], dH * Res, dVar * Res)

\* rDelta of both rollbacks: rDelta -= rValues * uState; rDelta /= m_dVar
DeltaOf(uState, rValues, rDelta, dVar) == [k \in 1..Len(rValues) |-> Frac(rDelta[k] - rValues[k] * uState[k], dVar)]

\* a sum that leaves out the term of the rolled back delta
GammaSumNoDelta(uState, rValues, rDelta, rGamma) == [k \in 1..Len(rValues) |-> rGamma[k] + uState[k] * uState[k] * rValues[k]]

\* rGamma += (-2. * uState * rDelta + uState2 * rValues)
GammaSum(uState, rValues, rDelta, rGamma) == [k \in 1..Len(rValues) |-> rGamma[k] + (-2 * uState[k] * rDelta[k] + uState[k] * uState[k] * rValues[k])]

\* rGamma /= m_dVar; rGamma -= rValues; rGamma /= m_dVar
GammaOf(rValues, rGamma, dVar) ==
    [k \in 1..Len(rValues) |->
        LET f == FracSub(Frac(rGamma[k], dVar), <<rValues[k], 1>>)
        IN  Frac(f[1], f[2] * dVar)]

\* rollback (rValues, rDelta)
Rollback2(v, dH, dVar) ==
    LET uState == state(Len(v), dH)
        rValues == Rollback1(v, dH, dVar)
        rDelta == Rollback1(Times(v, uState), dH, dVar)
    IN  [values |-> rValues, delta |-> DeltaOf(uState, rValues, rDelta, dVar)]

\* rollback (rValues, rDelta, rGamma)
Rollback3(v, dH, dVar) ==
    LET uState == state(Len(v), dH)
        rValues == Rollback1(v, dH, dVar)
        rDelta == Rollback1(Times(v, uState), dH, dVar)
        rGamma == Rollback1(Times(v, Times(uState, uState)), dH, dVar)
    IN  [values |-> rValues,
         delta |-> DeltaOf(uState, rValues, rDelta, dVar),
         gamma |-> GammaOf(rValues, GammaSum(uState, rValues, rDelta, rGamma), dVar)]

GaussValues == {-8, 0, 16}
GaussArrays == UNION {[1..n -> GaussValues] : n \in 2..MaxLen}
GaussSteps == {2, 4}

InitGauss ==
    /\ input \in [rValues : GaussArrays, dH : GaussSteps, dVar : 0..MaxVar]
    /\ model = NoModel /\ Alone /\ NoHandles

\* uRoll.assign (size, dH, dVar); uRoll.rollback (rValues, rDelta)
RollbackDelta ==
    /\ lastOp.op = "init"
    /\ IF GaussPre(Len(input.rValues), input.dVar)
       THEN /\ output' = Rollback2(input.rValues, input.dH, input.dVar)
            /\ lastOp' = [op |-> "rollback2", s |-> Ret]
            /\ UNCHANGED <<model, target, slice, heap, owner, pc, calls, failed, nOps, input, handles, objects>>
       ELSE Failed("rollback2", Ret) /\ UNCHANGED calls

\* uRoll.assign (size, dH, dVar); uRoll.rollback (rValues, rDelta, rGamma)
RollbackGamma ==
    /\ lastOp.op = "init"
    /\ IF GaussPre(Len(input.rValues), input.dVar)
       THEN /\ output' = Rollback3(input.rValues, input.dH, input.dVar)
            /\ lastOp' = [op |-> "rollback3", s |-> Ret]
            /\ UNCHANGED <<model, target, slice, heap, owner, pc, calls, failed, nOps, input, handles, objects>>
       ELSE Failed("rollback3", Ret) /\ UNCHANGED calls

NextGauss == RollbackDelta \/ RollbackGamma

SpecGauss == InitGauss /\ [][NextGauss]_vars

\* R(v x^n) for the input array v and the grid x, n = 0, 1, 2
Rolled(n) ==
    LET x == state(Len(input.rValues), input.dH)
        w == [k \in 1..Len(x) |-> input.rValues[k] * (IF n = 0 THEN 1 ELSE IF n = 1 THEN x[k] ELSE x[k] * x[k])]
    IN  Rollback1(w, input.dH, input.dVar)

\* C12: with R the single-array rollback and x the symmetric grid, the rollback
\* with three outputs returns values = R(v), delta = (R(v x) - x R(v))/var and
\* gamma = (R(v x^2) - 2x R(v x) + x^2 R(v))/var^2 - R(v)/var, and the rollback
\* with two outputs returns the same values and the same delta.
C12_DeltaGamma ==
    LET x == state(Len(input.rValues), input.dH)
        var == input.dVar
    IN  (lastOp.op \in {"rollback2", "rollback3"} /\ ~failed) =>
           /\ output.values = Rolled(0)
           /\ \A k \in 1..Len(x) : output.delta[k] = Frac(Rolled(1)[k] - x[k] * Rolled(0)[k], var)
           /\ lastOp.op = "rollback3" =>
                 \A k \in 1..Len(x) :
                    output.gamma[k] = FracSub(Frac(Rolled(2)[k] - 2 * x[k] * Rolled(1)[k] + x[k] * x[k] * Rolled(0)[k], var * var),
                                              Frac(Rolled(0)[k], var))

\* the three outputs of a rollback whose delta and gamma are not zero
C12_Witness ==
    /\ lastOp.op = "rollback3" /\ ~failed
    /\ \E k \in 1..Len(output.values) : output.delta[k][1] # 0 /\ output.gamma[k][1] # 0 /\ output.gamma[k][2] # 1
    /\ output.values # input.rValues

----------------------------------------------------------------------------
(* cfl::NGaussRollback: the schemes behind a cfl::GaussRollback: SpecScheme. *)
(* The real parameters are exact fractions <<n, d>> with d > 0.  objects is  *)
(* the object m_uP of the scheme uRoll and handles the members m_iSize, m_dH  *)
(* and m_dVar of uRoll, which assign sets; input is the arguments of the     *)
(* latest call and output the stages and passes of the latest rollback over  *)
(* its array, in their order.                                                *)

FracAdd(f, g) ==
    LET c == Max(Gcd(f[2], g[2]), 1)
    IN  Frac(f[1] * (g[2] \div c) + g[1] * (f[2] \div c), (f[2] \div c) * g[2])
FracMul(f, g) ==
    LET a == Max(Gcd(Abs(f[1]), g[2]), 1)
        b == Max(Gcd(Abs(g[1]), f[2]), 1)
    IN  Frac((f[1] \div a) * (g[1] \div b), (f[2] \div b) * (g[2] \div a))
\* f / g for g > 0
FracDiv(f, g) == FracMul(f, <<g[2], g[1]>>)
FracLeq(f, g) == f[1] * g[2] <= g[1] * f[2]
FracMin(f, g) == IF FracLeq(f, g) THEN f ELSE g
Pos(f) == f[1] > 0

\* no scheme: the factory did not return
NoScheme == [kind |-> "none"]

\* the object of a constructor that did not complete
Rejected(how) == [kind |-> "rejected", how |-> how]

\* m_iSteps and m_dQ of Explicit and Theta: ceil (dVar / (dX * dP)) and min (dVar / (dX * m_iSteps), dP)
SchemeSteps(dP, dH, dVar) == Ceil(FracDiv(dVar, FracMul(<<2 * dH * dH, 1>>, dP))[1], FracDiv(dVar, FracMul(<<2 * dH * dH, 1>>, dP))[2])
\* a sub-step parameter that is the step of the scheme itself
SchemeQStep(dP, dH, dVar) == dP
SchemeQ(dP, dH, dVar) == FracMin(FracDiv(dVar, <<2 * dH * dH * SchemeSteps(dP, dH, dVar), 1>>), dP)

\* Explicit (dP, iSize, dH, dVar)
Explicit(dP, iSize, dH, dVar) ==
    LET bB == Pos(dP) /\ FracLeq(dP, <<1, 2>>)
    IN  IF ~bB THEN Rejected("precondition")
        ELSE IF iSize >= 3 /\ ~(Pos(dVar) /\ dH > 0) THEN Rejected("assert")
        ELSE [kind |-> "Explicit", m_dTheta |-> <<0, 1>>, m_uP |-> "const", m_dP |-> dP,
              m_iSize |-> iSize, m_dH |-> dH, m_dVar |-> dVar,
              m_iSteps |-> IF iSize >= 3 THEN SchemeSteps(dP, dH, dVar) ELSE 0,
              m_dQ |-> IF iSize >= 3 THEN SchemeQ(dP, dH, dVar) ELSE <<0, 1>>]

\* the step rP (dH) of a Theta scheme: the number dP of impl, dR / (2. * dH) of crankNicolson
ThetaP(uP, dP, dH) == IF uP = "const" THEN dP ELSE Frac(dP[1], dP[2] * 2 * dH)

\* Theta (dTheta, rP, iSize, dH, dVar); with dH = 0 the step of crankNicolson is
\* dR/0, positive for dR > 0, and the second PRECONDITION fails
Theta(dTheta, uP, dP, iSize, dH, dVar) ==
    IF iSize >= 2 /\ ~(Pos(ThetaP(uP, dP, dH)) /\ Pos(dTheta) /\ FracLeq(dTheta, <<1, 1>>))
    THEN Rejected("precondition")
    ELSE IF iSize >= 2 /\ ~(Pos(dVar) /\ dH > 0) THEN Rejected("precondition")
    ELSE [kind |-> "Theta", m_dTheta |-> dTheta, m_uP |-> uP, m_dP |-> dP,
          m_iSize |-> iSize, m_dH |-> dH, m_dVar |-> dVar,
          m_iSteps |-> IF iSize >= 2 THEN SchemeSteps(ThetaP(uP, dP, dH), dH, dVar) ELSE 0,
          m_dQ |-> IF iSize >= 2 THEN SchemeQ(ThetaP(uP, dP, dH), dH, dVar) ELSE <<0, 1>>]

\* a factory that checks nothing
AnyStep(dP) == TRUE

\* PRECONDITION of expl
ExplPre(dP) == Pos(dP) /\ FracLeq(dP, <<1, 2>>)

\* PRECONDITION of impl and of crankNicolson
ImplPre(dP) == Pos(dP)

\* NGaussRollback::expl (dP), impl (dP), crankNicolson (dR): the new scheme
expl(dP) == IF ExplPre(dP) THEN Explicit(dP, 0, 0, <<0, 1>>) ELSE Rejected("precondition")
impl(dP) == IF ImplPre(dP) THEN Theta(<<1, 1>>, "const", dP, 0, 0, <<0, 1>>) ELSE Rejected("precondition")
crankNicolson(dR) == IF ImplPre(dR) THEN Theta(<<1, 2>>, "cn", dR, 0, 0, <<0, 1>>) ELSE Rejected("precondition")

\* IGaussRollback::newObject (iSize, dH, dVar) of Explicit and of Theta
newObject(obj, iSize, dH, dVar) ==
    IF obj.kind = "Explicit" THEN Explicit(obj.m_dP, iSize, dH, dVar)
    ELSE Theta(obj.m_dTheta, obj.m_uP, obj.m_dP, iSize, dH, dVar)

\* PRECONDITION of IGaussRollback::rollback for an array of iLen values
SchemeRollbackPre(obj, iLen) ==
    /\ iLen = obj.m_iSize
    /\ obj.kind = "Explicit" => Pos(obj.m_dQ) /\ FracLeq(obj.m_dQ, <<1, 2>>) /\ obj.m_iSteps > 0

\* the passes of IGaussRollback::rollback: m_iSteps times the explicit step with
\* m_dQ * (1 - m_dTheta), then the tridiagonal solve with m_dQ * m_dTheta
SchemePasses(obj) ==
    IF obj.kind = "Explicit"
    THEN IF obj.m_iSize >= 3 THEN << [pass |-> "Explicit", steps |-> obj.m_iSteps, q |-> obj.m_dQ, theta |-> obj.m_dTheta] >> ELSE << >>
    ELSE IF obj.m_iSize >= 2 /\ obj.m_iSteps > 0
         THEN << [pass |-> "Theta", steps |-> obj.m_iSteps, q |-> obj.m_dQ, theta |-> obj.m_dTheta] >>
         ELSE << >>

FracEq(f, g) == f[1] * g[2] = g[1] * f[2]

\* the variance of iSteps steps of a scheme with step dP on a grid of step dH
StageVar(dH, dP, iSteps) == FracMul(<<2 * dH * dH * iSteps, 1>>, dP)

\* a chain that takes the main scheme also when no variance is left for it
ChainMainOrEqual(dV) == dV[1] >= 0

\* if (dV > 0)
ChainMain(dV) == Pos(dV)

\* Chain (iExpl, rMain, iImpl, dExplP, dImplP, iSize, dH, dVar), for a main
\* scheme rMain that is not a chain itself
Chain(iExpl, rMain, iImpl, dExplP, dImplP, iSize, dH, dVar) ==
    LET dExplVar == StageVar(dH, dExplP, iExpl)
        dImplVar == StageVar(dH, dImplP, iImpl)
        dV == FracSub(dVar, FracAdd(dExplVar, dImplVar))
        uMain == IF ChainMain(dV) THEN newObject(rMain, iSize, dH, dV) ELSE rMain
        uExpl == IF expl(dExplP).kind = "rejected" THEN expl(dExplP)
                 ELSE newObject(expl(dExplP), iSize, dH, IF ChainMain(dV) THEN dExplVar ELSE dVar)
        uImpl == IF ChainMain(dV) /\ impl(dImplP).kind # "rejected" THEN newObject(impl(dImplP), iSize, dH, dImplVar) ELSE impl(dImplP)
    IN  IF "rejected" \in {expl(dExplP).kind, impl(dImplP).kind} THEN Rejected("precondition")
        ELSE IF "rejected" \in {uMain.kind, uExpl.kind, uImpl.kind} THEN Rejected("assert")
        ELSE [kind |-> "Chain", m_iExpl |-> iExpl, m_iImpl |-> iImpl, m_dExplP |-> dExplP, m_dImplP |-> dImplP,
              m_uMain |-> uMain, m_uExpl |-> uExpl, m_uImpl |-> uImpl, m_bMain |-> ChainMain(dV)]

\* NGaussRollback::chain (iExplSteps, rMain, iImplSteps, dExplP, dImplP)
chain(iExplSteps, rMain, iImplSteps, dExplP, dImplP) == Chain(iExplSteps, rMain, iImplSteps, dExplP, dImplP, 0, 0, <<0, 1>>)

\* m_uP->newObject (iSize, dH, dVar) of cfl::GaussRollback::assign
assign(uRoll, iSize, dH, dVar) ==
    IF uRoll.kind = "Chain"
    THEN Chain(uRoll.m_iExpl, uRoll.m_uMain, uRoll.m_iImpl, uRoll.m_dExplP, uRoll.m_dImplP, iSize, dH, dVar)
    ELSE newObject(uRoll, iSize, dH, dVar)

\* a chain that calls the main scheme first
ChainStagesMainFirst(obj) ==
    (IF obj.m_bMain THEN << [stage |-> "main", scheme |-> obj.m_uMain] >> ELSE << >>)
    \o (IF obj.m_iExpl > 0 \/ ~obj.m_bMain THEN << [stage |-> "expl", scheme |-> obj.m_uExpl] >> ELSE << >>)
    \o (IF obj.m_bMain THEN << [stage |-> "impl", scheme |-> obj.m_uImpl] >> ELSE << >>)

\* the stages that Chain::rollback calls, in the order of the calls
ChainStages(obj) ==
    (IF obj.m_iExpl > 0 \/ ~obj.m_bMain THEN << [stage |-> "expl", scheme |-> obj.m_uExpl] >> ELSE << >>)
    \o (IF obj.m_bMain THEN << [stage |-> "main", scheme |-> obj.m_uMain], [stage |-> "impl", scheme |-> obj.m_uImpl] >> ELSE << >>)

\* the stages of a rollback: those of a chain, or the scheme itself
Stages(uRoll) == IF uRoll.kind = "Chain" THEN ChainStages(uRoll) ELSE << [stage |-> "self", scheme |-> uRoll] >>

\* the assertions of the rollbacks of the stages
RollbackPre(uRoll, iLen) == \A k \in 1..Len(Stages(uRoll)) : SchemeRollbackPre(Stages(uRoll)[k].scheme, iLen)

\* the rollbacks of the stages in the order of the calls, each with its passes over the array
Passes(uRoll) == [k \in 1..Len(Stages(uRoll)) |-> [stage |-> Stages(uRoll)[k].stage, passes |-> SchemePasses(Stages(uRoll)[k].scheme)]]

SchemeSteps1 == {<<-1, 2>>, <<0, 1>>, <<1, 3>>, <<1, 2>>, <<2, 3>>}
SchemeSizes == {0, 2, 3, MaxLen + 1}
SchemeH == {0, 1, 2}
SchemeVars == {<<n, 2>> : n \in 0..MaxVar}

InitScheme == input = [op |-> "none"] /\ objects = NoScheme /\ handles = << >> /\ model = NoModel /\ Alone

\* a call that returns: the scheme, the arguments and the passes after it
Returned(op, args, obj, passes) ==
    /\ objects' = obj
    /\ input' = args
    /\ output' = passes
    /\ lastOp' = [op |-> op, s |-> Ret]
    /\ UNCHANGED <<model, target, slice, heap, owner, pc, calls, failed, nOps, handles>>

\* a call that fails an assertion: the program stops
Stopped(op, args) ==
    /\ failed' = TRUE
    /\ input' = args
    /\ lastOp' = [op |-> op, s |-> Ret]
    /\ UNCHANGED <<model, target, slice, heap, owner, pc, calls, nOps, output, handles, objects>>

\* cfl::GaussRollback uRoll = f (dP) for a factory f
Create(op, dP, obj) ==
    /\ ~failed /\ objects = NoScheme
    /\ IF obj.kind = "rejected"
       THEN Stopped(op, [op |-> op, dP |-> dP])
       ELSE Returned(op, [op |-> op, dP |-> dP], obj, << >>)

CreateExpl == \E dP \in SchemeSteps1 : Create("expl", dP, expl(dP))
CreateImpl == \E dP \in SchemeSteps1 : Create("impl", dP, impl(dP))
CreateCrankNicolson == \E dR \in SchemeSteps1 : Create("crankNicolson", dR, crankNicolson(dR))

ChainSteps == {<<1, 4>>, <<2, 3>>}
ChainCounts == {0, 1, 2}
ChainMains == {crankNicolson(<<1, 2>>), expl(<<1, 3>>)}

\* cfl::GaussRollback uRoll = chain (iExplSteps, rMain, iImplSteps, dExplP, dImplP)
CreateChain ==
    \E iExpl \in ChainCounts, iImpl \in ChainCounts, dExplP \in ChainSteps, dImplP \in ChainSteps, rMain \in ChainMains :
       /\ ~failed /\ objects = NoScheme
       /\ LET args == [op |-> "chain", iExpl |-> iExpl, iImpl |-> iImpl, dExplP |-> dExplP, dImplP |-> dImplP]
              obj == chain(iExpl, rMain, iImpl, dExplP, dImplP)
          IN  IF obj.kind = "rejected" THEN Stopped("chain", args) ELSE Returned("chain", args, obj, << >>)

\* uRoll.assign (iSize, dH, dVar)
AssignScheme ==
    /\ ~failed /\ objects # NoScheme
    /\ \E iSize \in SchemeSizes, dH \in SchemeH, dVar \in SchemeVars :
          LET obj == assign(objects, iSize, dH, dVar)
              args == [op |-> "assign", iSize |-> iSize, dH |-> dH, dVar |-> dVar]
          IN  IF obj.kind = "rejected"
              THEN Stopped("assign", args)
              ELSE /\ objects' = obj
                   /\ handles' = [m_iSize |-> iSize, m_dH |-> dH, m_dVar |-> dVar]
                   /\ input' = args
                   /\ output' = << >>
                   /\ lastOp' = [op |-> "assign", s |-> Ret]
                   /\ UNCHANGED <<model, target, slice, heap, owner, pc, calls, failed, nOps>>

\* uRoll.rollback (rValues) for an array of iLen values
RollbackScheme ==
    /\ ~failed /\ objects # NoScheme
    /\ \E iLen \in SchemeSizes :
          LET args == [op |-> "rollback", iLen |-> iLen]
          IN  IF RollbackPre(objects, iLen)
              THEN Returned("rollback", args, objects, Passes(objects))
              ELSE Stopped("rollback", args)

NextScheme == CreateExpl \/ CreateImpl \/ CreateCrankNicolson \/ CreateChain \/ AssignScheme \/ RollbackScheme

SpecScheme == InitScheme /\ [][NextScheme]_vars

\* the parameter of a scheme is in the range of its kind
InRange(obj) ==
    IF obj.kind = "Chain"
    THEN Pos(obj.m_dExplP) /\ FracLeq(obj.m_dExplP, <<1, 2>>) /\ Pos(obj.m_dImplP)
    ELSE Pos(obj.m_dP) /\ (obj.kind = "Explicit" => FracLeq(obj.m_dP, <<1, 2>>))

\* C13: an explicit scheme with p <= 0 or p > 0.5, an implicit scheme with
\* p <= 0 and a Crank-Nicolson scheme with r <= 0 are rejected by the factory:
\* the call fails and returns no scheme, so that every scheme that exists, and
\* so every scheme that assign or rollback is called on, has its parameter in range.
C13_Rejected ==
    /\ objects # NoScheme => InRange(objects)
    /\ (lastOp.op \in {"expl", "impl", "crankNicolson"} /\ ~(Pos(input.dP) /\ (lastOp.op = "expl" => FracLeq(input.dP, <<1, 2>>))))
          => failed /\ objects = NoScheme

\* impl (0.) has failed and there is no scheme
C13_Witness == failed /\ lastOp.op = "impl" /\ input.dP = <<0, 1>> /\ objects = NoScheme

----------------------------------------------------------------------------
(* cfl::Fit: the constructors that fit to data: SpecFit.  The arrays rArg,   *)
(* rVal and rWt have iArg entries each, the weights are positive and the     *)
(* arguments are in the domains of the functions; bAssert says whether the   *)
(* build keeps the assertions (NDEBUG not defined).                          *)

FitKinds == {"LinFit", "OneDimFit", "Regression", "BSpline"}
FitBases == {1, 2}
FitOrders == {2, 3}
FitPoints == {2, 3}

\* m_iF of BSpline
BSplineF(iOrder, iPoints) == iOrder + iPoints - 2

\* the PRECONDITION on the number of points
FitPre(in) ==
    CASE in.kind = "LinFit" -> in.iArg > 0 /\ in.iBase < in.iArg
      [] in.kind = "BSpline" -> in.iArg > 0 /\ in.iArg > BSplineF(in.iOrder, in.iPoints)
      [] OTHER -> in.iArg > 1

\* the condition of throw (cfl::NError::size (...)); OneDimFit and Regression have none
FitThrows(in) ==
    CASE in.kind = "LinFit" -> in.iArg <= in.iBase
      [] in.kind = "BSpline" -> in.iArg <= BSplineF(in.iOrder, in.iPoints)
      [] OTHER -> FALSE

\* the constructor with data: the assertions first, then the throw, then the fit
FitResult(in) ==
    IF in.bAssert /\ ~FitPre(in) THEN "assertion"
    ELSE IF FitThrows(in) THEN "size"
    ELSE "fit"

InitFit ==
    /\ input \in [kind : FitKinds, iArg : 0..(MaxLen + 1), iBase : FitBases, iOrder : FitOrders, iPoints : FitPoints, bAssert : BOOLEAN]
    /\ model = NoModel /\ Alone /\ NoHandles

\* uFit.assign (rArg, rVal, rWt, bChi2): newObject constructs the fit; an
\* assertion stops the program, the exception leaves the caller running
AssignFit ==
    /\ lastOp.op = "init"
    /\ output' = [result |-> FitResult(input)]
    /\ failed' = (FitResult(input) = "assertion")
    /\ lastOp' = [op |-> "fit", s |-> Ret]
    /\ UNCHANGED <<model, target, slice, heap, owner, pc, calls, nOps, input, handles, objects>>

NextFit == AssignFit

SpecFit == InitFit /\ [][NextFit]_vars

\* too few points for the fit
TooFew(in) ==
    CASE in.kind = "LinFit" -> in.iArg <= in.iBase
      [] in.kind = "BSpline" -> in.iArg <= in.iOrder + in.iPoints - 2
      [] OTHER -> in.iArg <= 1

\* C14: a fit from too few points raises the size error and fails no
\* assertion, for the linear fit with several basis functions, the B-spline
\* fit, the linear fit with one basis function and the linear regression.
C14_SizeError == (lastOp.op = "fit" /\ TooFew(input)) => (output.result = "size" /\ ~failed)

----------------------------------------------------------------------------
(* cflBrownian::Model: the constructor and a rollback called on the model    *)
(* it has constructed: SpecBrownian.                                         *)

CtorEventTimes == {<<0, 1, 2>>, <<0, 1, 1>>, <<0, 2, 1>>}
CtorVars == {<<1, 1, 1>>, <<4, 3, 3>>, <<4, 3, 1>>, <<1, 1, 3>>, <<1, 1>>, <<1, 2, 2, 2>>} \cup {<<1, n, n>> : n \in 1..MaxVar}

InitBrownian ==
    /\ input \in [rSize : {"size"}, log4 : {0}, dH1 : {Res}, iUniformSteps : {1}, rVar : CtorVars, rEventTimes : CtorEventTimes, dInterval : GridIntervals]
    /\ model = NoModel /\ Alone /\ NoHandles

\* model.rollback (a, iTime), called on the model
ModelRollback(i, iTime) ==
    /\ Ready /\ Live(i)
    /\ IF BrownianRollbackPre(View(i), iTime)
       THEN /\ InPlace(i, BrownianRollback(View(i), iTime))
            /\ Done("rollback", i)
            /\ UNCHANGED <<owner, pc, calls>>
       ELSE Abort("rollback", i)

NextBrownian ==
    \/ Construct
    \/ \E iTime \in TimeIndexes : lastOp.op # "init" /\ NewState(1, "base", iTime)
    \/ \E iTime \in TimeIndexes : ModelRollback(1, iTime)

SpecBrownian == InitBrownian /\ [][NextBrownian]_vars

\* the arguments that the constructor accepts, as the claim states them
Accepted(rVar, rEventTimes) ==
    /\ Len(rVar) = Len(rEventTimes)
    /\ \A i \in 2..Len(rEventTimes) : rEventTimes[i - 1] < rEventTimes[i]
    /\ \A i \in 2..Len(rVar) :
          rVar[i] * (rEventTimes[i] - rEventTimes[1]) - rVar[i - 1] * (rEventTimes[i - 1] - rEventTimes[1]) >= EPS

\* C15: the constructor fails an assertion and leaves no model when the event
\* times are not strictly increasing, when the vectors of variances and event
\* times differ in length, or when the total variances var[i] (t_i - t_0) do
\* not increase by more than the floor; a rollback of the model between two
\* indexes whose total variances do not differ by more than the floor fails an
\* assertion and leaves the Slice as it was.
C15_Assertions ==
    [][/\ (lastOp.op = "init" /\ lastOp'.op # "init" /\ ~Accepted(input.rVar, input.rEventTimes))
             => (failed' /\ model' = NoModel)
       /\ \A iTime \in TimeIndexes :
             (ModelRollback(1, iTime) /\ model.m_uTotalVar[slice[1].m_iTime + 1] - model.m_uTotalVar[iTime + 1] < VAR_EPS)
                => (failed' /\ slice' = slice /\ heap' = heap)]_vars

\* the constructor has refused event times in the wrong order whose total variances increase
C15_Witness == failed /\ lastOp.op = "precondition" /\ input.rEventTimes = <<0, 2, 1>> /\ input.rVar = <<1, 1, 3>> /\ model = NoModel

----------------------------------------------------------------------------
(* cfl::indicator of a Slice of the Brownian model, from both sides:         *)
(* SpecBarrier.                                                              *)

\* the barriers, in the units of the values of a Slice
SliceBarriers == {-One, 0, One}

\* operator- (double, const Slice &)
ScalarMinus(dValue, S) == [S EXCEPT !.m_uValues = [k \in 1..Len(S.m_uValues) |-> dValue - S.m_uValues[k]]]

\* an indicator of the same side
IndicatorBelowSame(S, dBarrier) == BrownianIndicator(S, dBarrier)

\* indicator (dBarrier, rSlice)
IndicatorBelow(S, dBarrier) == ScalarMinus(One, BrownianIndicator(S, dBarrier))

\* indicator (dBarrier, a) for a Slice of the Brownian model: a new Slice
IndicatorBelowStep(i, dBarrier) ==
    /\ Ready /\ Live(i)
    /\ slice[i].m_pModel = "base"
    /\ Fresh(Ret, IndicatorBelow(View(i), dBarrier))
    /\ Done("indicatorbelow", Ret)
    /\ calls' = NoCalls
    /\ UNCHANGED pc

NextBarrier ==
    \/ \E t \in TimeIndexes : NewState(1, "base", t)
    \/ \E t \in TimeIndexes, v \in SliceBarriers : NewConstant(1, "base", t, v)
    \/ \E b \in SliceBarriers : IndicatorStep(1, b)
    \/ \E b \in SliceBarriers : IndicatorBelowStep(1, b)

SpecBarrier == Init /\ [][NextBarrier]_vars

----------------------------------------------------------------------------
(* cflBrownian::Model::state, under SpecBrownian *)

\* C17: state (t, 0) of the Brownian model is a Slice with time index t,
\* dependence {0} and N = gridSize (t) values x_k = -h (N - 1)/2 + k h: the
\* values are symmetric about 0, x_k = -x_{N-1-k}, and consecutive values
\* differ by h, the one step of the model, at every event time.
C17_State ==
    [][\A t \in TimeIndexes :
          NewState(1, "base", t) =>
             LET S == View(1)'
                 N == Len(S.m_uValues)
             IN  /\ S.m_iTime = t /\ S.m_uDependence = <<0>>
                 /\ N = model.m_uSize[t + 1]
                 /\ \A k \in 1..N : 2 * S.m_uValues[k] = -(2 * model.m_dH * (N - 1)) + (k - 1) * 4 * model.m_dH
                 /\ \A k \in 1..N : S.m_uValues[k] = -S.m_uValues[N + 1 - k]
                 /\ \A k \in 2..N : S.m_uValues[k] - S.m_uValues[k - 1] = 2 * model.m_dH]_vars

\* a state Slice of the last event time, on a grid larger than the first one
C17_Witness ==
    /\ lastOp.op = "state" /\ ~failed
    /\ slice[1].m_iTime = Len(model.m_uSize) - 1
    /\ Len(Val(1)) = model.m_uSize[Len(model.m_uSize)]
    /\ Len(Val(1)) > model.m_uSize[1]
    /\ Val(1)[1] < 0 /\ Val(1)[1] = -Val(1)[Len(Val(1))]

----------------------------------------------------------------------------
(* cflBrownian::Model::rollback of a state Slice, under SpecBrownian *)

\* C18: a rollback of a Slice that depends on the state, from time index i to
\* j < i, sets the time index to j, keeps the dependence {0} and leaves the
\* N_j = gridSize (j) entries (N_i - N_j)/2 ... (N_i - N_j)/2 + N_j - 1 of the
\* array that the Gaussian rollback with variance totalVar[i] - totalVar[j]
\* makes of all the N_i values; for N_j = N_i it leaves them all.
C18_Window ==
    [][\A j \in TimeIndexes :
          (ModelRollback(1, j) /\ ~failed') =>
             LET S == View(1)
                 iNi == Len(S.m_uValues)
                 iNj == model.m_uSize[j + 1]
                 uR == ExplicitRollback(S.m_uValues, model.m_dP[1], model.m_dP[2], model.m_dH,
                                        model.m_uTotalVar[S.m_iTime + 1] - model.m_uTotalVar[j + 1])
             IN  /\ j < S.m_iTime
                 /\ View(1)'.m_iTime = j /\ View(1)'.m_uDependence = <<0>>
                 /\ Len(Val(1)') = iNj
                 /\ \A k \in 0..(iNj - 1) : Val(1)'[k + 1] = uR[(iNi - iNj) \div 2 + k + 1]
                 /\ iNj = iNi => Val(1)' = uR]_vars

\* a rollback on a model whose grid grows at every event time: the window is
\* smaller than the array
C18_Witness ==
    /\ lastOp.op = "rollback" /\ ~failed
    /\ \A i \in 2..Len(model.m_uSize) : model.m_uSize[i - 1] < model.m_uSize[i]
    /\ Len(Val(1)) = model.m_uSize[slice[1].m_iTime + 1]
    /\ \E k \in 1..Len(Val(1)) : Val(1)[k] # BrownianState(slice[1].m_iTime).m_uValues[k]

----------------------------------------------------------------------------
(* The chain scheme, under SpecScheme *)

\* assign has returned and the scheme is a chain
ChainAssigned == lastOp.op = "assign" /\ ~failed /\ objects.kind = "Chain"

\* 2 h^2 pExpl nExpl and 2 h^2 pImpl nImpl for the chain and the step of the latest assign
explicitVar == FracMul(<<2 * handles.m_dH * handles.m_dH * objects.m_iExpl, 1>>, objects.m_dExplP)
implicitVar == FracMul(<<2 * handles.m_dH * handles.m_dH * objects.m_iImpl, 1>>, objects.m_dImplP)

\* the three stages have the variances explicitVar, var - explicitVar - implicitVar and implicitVar
ThreeStages ==
    /\ objects.m_bMain
    /\ FracEq(objects.m_uExpl.m_dVar, explicitVar)
    /\ FracEq(objects.m_uMain.m_dVar, FracSub(handles.m_dVar, FracAdd(explicitVar, implicitVar)))
    /\ FracEq(objects.m_uImpl.m_dVar, implicitVar)
    /\ FracEq(FracAdd(objects.m_uExpl.m_dVar, FracAdd(objects.m_uMain.m_dVar, objects.m_uImpl.m_dVar)), handles.m_dVar)

\* the explicit scheme alone has the whole variance
ExplicitOnly == ~objects.m_bMain /\ FracEq(objects.m_uExpl.m_dVar, handles.m_dVar)

\* a rollback of a chain without main scheme calls the explicit scheme only
OnlyExplicitRuns ==
    (lastOp.op = "rollback" /\ ~failed /\ objects.kind = "Chain" /\ ~objects.m_bMain)
       => \A k \in 1..Len(output) : output[k].stage = "expl"

StageRank(name) == CASE name = "expl" -> 1 [] name = "main" -> 2 [] name = "impl" -> 3 [] OTHER -> 0

\* C20: a rollback of a chain calls its stages in the order explicit, main,
\* implicit: no main or implicit stage comes before an explicit one, and the
\* main and the implicit stage are both called exactly when the variance left
\* for the main scheme, var - explicitVar - implicitVar, is positive.
C20_Order ==
    (lastOp.op = "rollback" /\ ~failed /\ objects.kind = "Chain") =>
       /\ handles # << >>
       /\ \A k \in 1..Len(output), l \in 1..Len(output) : k < l => StageRank(output[k].stage) < StageRank(output[l].stage)
       /\ \A name \in {"main", "impl"} :
             (\E k \in 1..Len(output) : output[k].stage = name)
                <=> Pos(FracSub(handles.m_dVar, FracAdd(explicitVar, implicitVar)))

\* a rollback of a chain in which the explicit, the main and the implicit stage each made passes over the array
C20_Witness ==
    /\ lastOp.op = "rollback" /\ ~failed /\ objects.kind = "Chain"
    /\ Len(output) = 3
    /\ \A k \in 1..3 : output[k].passes # << >>
    /\ <<output[1].stage, output[2].stage, output[3].stage>> = <<"expl", "main", "impl">>

----------------------------------------------------------------------------
(* The sub-steps of the explicit scheme, under SpecScheme *)

\* C21: an explicit scheme with p in (0, 0.5] that is assigned a grid of at
\* least 3 points with h > 0 and var > 0 makes steps = ceil (var/(2 h^2 p)) >= 1
\* sub-steps with a parameter q such that 0 < q <= p <= 0.5 and
\* steps q 2 h^2 = var.
C21_Steps ==
    (objects.kind = "Explicit" /\ objects.m_iSize >= 3) =>
       LET dX == 2 * objects.m_dH * objects.m_dH
           n == objects.m_iSteps
       IN  /\ objects.m_dH > 0 /\ Pos(objects.m_dVar)
           /\ n >= 1
           /\ FracLeq(objects.m_dVar, FracMul(<<n * dX, 1>>, objects.m_dP))
           /\ ~FracLeq(objects.m_dVar, FracMul(<<(n - 1) * dX, 1>>, objects.m_dP))
           /\ Pos(objects.m_dQ) /\ FracLeq(objects.m_dQ, objects.m_dP) /\ FracLeq(objects.m_dP, <<1, 2>>)
           /\ FracEq(FracMul(<<n * dX, 1>>, objects.m_dQ), objects.m_dVar)

\* an explicit scheme on 3 or more points that needs several sub-steps, each smaller than its step
C21_Witness ==
    /\ objects.kind = "Explicit" /\ objects.m_iSize >= 3 /\ ~failed /\ lastOp.op = "assign"
    /\ objects.m_iSteps >= 2
    /\ ~FracLeq(objects.m_dP, objects.m_dQ)

----------------------------------------------------------------------------
(* The sub-steps of a rollback on arrays of exact fractions *)

\* rTemp of explicitStep before rTemp *= dP
DiffExact(v) ==
    LET n == Len(v)
        d == [k \in 1..n |-> IF k = 1 \/ k = n THEN <<0, 1>>
                             ELSE FracAdd(FracSub(v[k + 1], FracMul(<<2, 1>>, v[k])), v[k - 1])]
    IN  [k \in 1..n |-> IF k = 1 THEN d[2] ELSE IF k = n THEN d[n - 1] ELSE d[k]]

\* explicitStep (rValues, rTemp, dP) on fractions
explicitStepExact(v, dP) ==
    SubSeq([k \in 1..Len(v) |-> FracAdd(v[k], FracMul(dP, DiffExact(v)[k]))], 1, Len(v))

\* a diagonal without the boundary rows
ThetaDiagInterior(iSize, dQ, dTheta) ==
    [k \in 1..iSize |-> FracAdd(<<1, 1>>, FracMul(<<2, 1>>, FracMul(dQ, dTheta)))]

\* m_uDiag of Theta
ThetaDiag(iSize, dQ, dTheta) ==
    [k \in 1..iSize |-> IF k = 1 \/ k = iSize THEN <<1, 1>>
                        ELSE FracAdd(<<1, 1>>, FracMul(<<2, 1>>, FracMul(dQ, dTheta)))]

\* m_uU of Theta: entries 1..iSize-1 are the upper, 2..iSize the lower diagonal
ThetaU(iSize, dQ, dTheta) ==
    [k \in 1..iSize |-> IF k = 1 \/ k = iSize THEN <<0, 1>> ELSE FracSub(<<0, 1>>, FracMul(dQ, dTheta))]

\* the elimination of the lower diagonal f: the pairs <<alpha, z>> of rows 1..i
RECURSIVE TridiagForward(_, _, _, _, _)
TridiagForward(diag, e, f, b, i) ==
    IF i = 1 THEN << <<diag[1], b[1]>> >>
    ELSE LET prev == TridiagForward(diag, e, f, b, i - 1)
             t == FracDiv(f[i - 1], prev[i - 1][1])
         IN  Append(prev, <<FracSub(diag[i], FracMul(t, e[i - 1])), FracSub(b[i], FracMul(t, prev[i - 1][2]))>>)

\* the back substitution with the upper diagonal e: the solution at rows i..N
RECURSIVE TridiagBack(_, _, _)
TridiagBack(az, e, i) ==
    IF i = Len(az) THEN << FracDiv(az[i][2], az[i][1]) >>
    ELSE LET rest == TridiagBack(az, e, i + 1)
         IN  << FracDiv(FracSub(az[i][2], FracMul(e[i], rest[1])), az[i][1]) >> \o rest

\* gsl_linalg_solve_tridiag (diag, e, f, b, x): the x with A x = b
gsl_linalg_solve_tridiag(diag, e, f, b) == TridiagBack(TridiagForward(diag, e, f, b, Len(diag)), e, 1)

\* one pass of the loop of Theta::rollback: its parts, each with the array before and after
ThetaStep(obj, v) ==
    LET n == obj.m_iSize
        bExpl == n >= 3 /\ ~FracLeq(<<1, 1>>, obj.m_dTheta)
        dE == FracMul(obj.m_dQ, FracSub(<<1, 1>>, obj.m_dTheta))
        w == IF bExpl THEN explicitStepExact(v, dE) ELSE v
        uU == ThetaU(n, obj.m_dQ, obj.m_dTheta)
        x == gsl_linalg_solve_tridiag(ThetaDiag(n, obj.m_dQ, obj.m_dTheta), SubSeq(uU, 1, n - 1), SubSeq(uU, 2, n), w)
    IN  (IF bExpl THEN << [part |-> "explicit", dP |-> dE, before |-> v, after |-> w] >> ELSE << >>)
        \o << [part |-> "implicit", dP |-> FracMul(obj.m_dQ, obj.m_dTheta), before |-> w, after |-> x] >>

\* one pass of the loop of Explicit::rollback
ExplicitStep(obj, v) ==
    << [part |-> "explicit", dP |-> obj.m_dQ, before |-> v, after |-> explicitStepExact(v, obj.m_dQ)] >>

\* the parts of the remaining i passes of rollback (rValues)
RECURSIVE SubSteps(_, _, _)
SubSteps(obj, v, i) ==
    IF i = 0 THEN << >>
    ELSE LET parts == IF obj.kind = "Explicit" THEN ExplicitStep(obj, v) ELSE ThetaStep(obj, v)
         IN  parts \o SubSteps(obj, parts[Len(parts)].after, i - 1)

\* the passes that rollback makes
SubStepCount(obj) ==
    IF obj.kind = "Explicit" THEN (IF obj.m_iSize >= 3 THEN obj.m_iSteps ELSE 0)
    ELSE IF obj.m_iSize >= 2 /\ obj.m_iSteps > 0 THEN obj.m_iSteps ELSE 0

\* the rollbacks followed value by value make at most MaxSteps passes
MaxSteps == 1

StepValues == {<<-1, 1>>, <<0, 1>>, <<2, 1>>}
StepArrays(iLen) == [1..iLen -> StepValues]

\* uRoll.rollback (rValues) for an array of the values: the output is the parts of the passes
RollbackValues ==
    /\ ~failed /\ objects # NoScheme /\ SubStepCount(objects) <= MaxSteps
    /\ \E iLen \in SchemeSizes : \E v \in StepArrays(iLen) :
          LET args == [op |-> "rollback", rValues |-> v]
          IN  IF SchemeRollbackPre(objects, iLen)
              THEN Returned("rollback", args, objects, SubSteps(objects, v, SubStepCount(objects)))
              ELSE Stopped("rollback", args)

NextSubSteps == CreateExpl \/ CreateImpl \/ CreateCrankNicolson \/ AssignScheme \/ RollbackValues

SpecSubSteps == InitScheme /\ [][NextSubSteps]_vars

\* the second difference of the array at an interior node
Diff2(v, k) == FracAdd(FracSub(v[k + 1], FracMul(<<2, 1>>, v[k])), v[k - 1])

\* the change of the value at node k in a part is dP times the second difference at node j,
\* of the array before an explicit part, of the array after an implicit part
Uses(r, k, j) ==
    FracSub(r.after[k], r.before[k]) = FracMul(r.dP, Diff2(IF r.part = "explicit" THEN r.before ELSE r.after, j))

\* the parts of the latest rollback on 3 or more points
Parts == IF lastOp.op = "rollback" /\ ~failed /\ objects.kind # "none" /\ objects.m_iSize >= 3 THEN output ELSE << >>

\* C22 as stated: in every sub-step of the explicit and of the theta scheme the
\* second difference used at each boundary node is the second difference at
\* the adjacent interior node.
C22_AsStated ==
    \A i \in 1..Len(Parts) :
       LET r == Parts[i]
           n == Len(r.before)
       IN  Uses(r, 1, 2) /\ Uses(r, n, n - 1)

\* C22: in every explicit step, of the explicit scheme and of the theta scheme
\* with theta < 1, the second difference used at each boundary node is the one
\* at the adjacent interior node; the tridiagonal solve of every theta sub-step
\* uses the second difference zero at the two boundary nodes, that is, it
\* leaves the two boundary values as they are, and the second difference of
\* the solution at every interior node.
C22_Boundary ==
    \A i \in 1..Len(Parts) :
       LET r == Parts[i]
           n == Len(r.before)
       IN  /\ r.part = "explicit" => Uses(r, 1, 2) /\ Uses(r, n, n - 1)
           /\ r.part = "implicit" => r.after[1] = r.before[1] /\ r.after[n] = r.before[n]
           /\ \A k \in 2..(n - 1) : Uses(r, k, k)

\* a Crank-Nicolson rollback on 3 or more points with an explicit step and a solve on an array that is curved at both ends
C22_Witness ==
    /\ Len(Parts) >= 2 /\ objects.m_dTheta = <<1, 2>>
    /\ Parts[1].part = "explicit" /\ Parts[2].part = "implicit"
    /\ Diff2(Parts[1].before, 2) # <<0, 1>>
    /\ Diff2(Parts[2].after, 2) # <<0, 1>>
    /\ Diff2(Parts[2].after, Len(Parts[2].after) - 1) # <<0, 1>>

----------------------------------------------------------------------------
(* The Black model: a TargetModel with the rollback closure cflBlack::rollback,
   on Slices of exact fractions. The Slice is in objects, the values of the
   discount curve at the event times are in handles. *)

\* rDiscount (rModel.eventTimes ()[iTime])
DiscountAt(iTime) == handles[iTime + 1]

\* a factor with the two times exchanged
BlackFactorInverse(iFrom, iTo) == FracDiv(DiscountAt(iTo), DiscountAt(iFrom))

\* dFactor = rDiscount (dMaturity) / rDiscount (dToday)
BlackFactor(iFrom, iTo) == FracDiv(DiscountAt(iFrom), DiscountAt(iTo))

\* Slice (&rModel, iTime, dValue)
ConstantExact(m, iTime, dValue) ==
    [kind |-> "Slice", m_pModel |-> m, m_iTime |-> iTime, m_uDependence |-> NoDep, m_uValues |-> << dValue >>]

\* TargetModel::state (iTime, 0)
StateExact(m, iTime) ==
    [kind |-> "Slice", m_pModel |-> m, m_iTime |-> iTime, m_uDependence |-> Dep0,
     m_uValues |-> [k \in 1..model.m_uSize[iTime + 1] |-> Frac(BrownianState(iTime).m_uValues[k], Res)]]

\* the loop of Explicit::rollback
RECURSIVE ExplicitLoopExact(_, _, _)
ExplicitLoopExact(v, i, dQ) == IF i = 0 THEN v ELSE ExplicitLoopExact(explicitStepExact(v, dQ), i - 1, dQ)

\* Brownian::rollback on a Slice of the base model
BrownianRollbackExact(S, iTime) ==
    LET dVar == <<RollbackVar(S, iTime) * Res, 1>>
        rolled == IF Len(S.m_uValues) > 1
                  THEN IF Len(S.m_uValues) >= 3
                       THEN ExplicitLoopExact(S.m_uValues, SchemeSteps(model.m_dP, model.m_dH, dVar), SchemeQ(model.m_dP, model.m_dH, dVar))
                       ELSE S.m_uValues
                  ELSE S.m_uValues
        iSize1 == BrownianNumberOfNodes(iTime, S.m_uDependence)
    IN  [S EXCEPT !.m_iTime = iTime,
                  !.m_uValues = IF iSize1 < Len(rolled) THEN Window(rolled, iSize1) ELSE rolled]

\* rSlice *= dFactor
Scaled(S, dFactor) == [S EXCEPT !.m_uValues = SubSeq([k \in 1..Len(S.m_uValues) |-> FracMul(S.m_uValues[k], dFactor)], 1, Len(S.m_uValues))]

\* TargetModel::rollback with the closure of the Black model: the Slice is
\* assigned the base model, rolled back by it, multiplied by the factor and
\* assigned the Black model again
BlackRollbackExact(S, iTime) ==
    LET uBase == [S EXCEPT !.m_pModel = "base"]
    IN  [Scaled(BrownianRollbackExact(uBase, iTime), BlackFactor(S.m_iTime, iTime)) EXCEPT !.m_pModel = S.m_pModel]

DiscountCurves == {<< <<1, 1>>, <<7, 8>>, <<3, 4>> >>, << <<1, 1>>, <<1, 2>>, <<1, 3>> >>, << <<1, 1>>, <<1, 1>>, <<1, 1>> >>}
BlackValues == {<<-3, 2>>, <<0, 1>>, <<5, 1>>}

InitBlack ==
    /\ \E rVar \in VarSchedules, dInterval \in Intervals :
          /\ CtorPre(rVar, EventTimes)
          /\ model = BrownianModel("size", 0, Res, 1, ExplP, "naive", rVar, EventTimes, dInterval)
          /\ CtorPost(model.m_uSize)
    /\ target = [m_uRollback |-> "black"]
    /\ handles \in DiscountCurves
    /\ objects = [kind |-> "none"]
    /\ slice = [i \in Slots |-> Hdr(DefaultSlice, NewStorage(i))]
    /\ heap = [i \in Slots |-> DefaultSlice.m_uValues]
    /\ owner = [i \in Slots |-> "null"]
    /\ pc = Idle /\ calls = NoCalls /\ failed = FALSE /\ nOps = 0
    /\ lastOp = [op |-> "init", s |-> Ret]
    /\ input = << >> /\ output = << >>

\* Slice a (&rBlack, iTime, dValue), or a = rBlack.state (iTime, 0): input keeps the Slice
NewSliceExact ==
    /\ ~failed /\ objects.kind = "none"
    /\ \E iTime \in TimeIndexes :
       \E S \in {ConstantExact("dec", iTime, dValue) : dValue \in BlackValues} \cup {StateExact("dec", iTime)} :
          /\ objects' = S
          /\ input' = S
          /\ lastOp' = [op |-> "slice", s |-> Ret]
          /\ UNCHANGED <<model, target, slice, heap, owner, pc, calls, failed, nOps, output, handles>>

\* a.rollback (iTime): output keeps the Slice before the call
RollbackExact ==
    /\ ~failed /\ objects.kind = "Slice" /\ nOps < MaxOps
    /\ \E iTime \in TimeIndexes :
          /\ input' = input
          /\ output' = [before |-> objects, iTime |-> iTime]
          /\ lastOp' = [op |-> "rollback", s |-> Ret]
          /\ nOps' = nOps + 1
          /\ IF iTime > objects.m_iTime
             THEN failed' = TRUE /\ UNCHANGED objects
             ELSE IF RollbackCalls(objects, iTime) = 0
             THEN UNCHANGED <<objects, failed>>
             ELSE IF BrownianRollbackPre([objects EXCEPT !.m_pModel = "base"], iTime)
             THEN objects' = BlackRollbackExact(objects, iTime) /\ UNCHANGED failed
             ELSE failed' = TRUE /\ UNCHANGED objects
          /\ UNCHANGED <<model, target, slice, heap, owner, pc, calls, handles>>

NextBlack == NewSliceExact \/ RollbackExact

SpecBlack == InitBlack /\ [][NextBlack]_vars

\* C23: in the Black model a rollback from index i to j < i gives the rollback
\* of the base Brownian model multiplied by D(t_i)/D(t_j) for the discount
\* curve D, and a constant Slice of value v at index i that is rolled back to
\* index k, directly or in two stages through an index j, has the value
\* v D(t_i)/D(t_k), the time index k and no dependence.
C23_Discounted ==
    (objects.kind = "Slice" /\ lastOp.op = "rollback" /\ ~failed) =>
       /\ output.iTime < output.before.m_iTime =>
             LET uBase == BrownianRollbackExact([output.before EXCEPT !.m_pModel = "base"], output.iTime)
                 i == output.before.m_iTime
                 j == output.iTime
             IN  /\ objects.m_iTime = j /\ objects.m_pModel = "dec" /\ objects.m_uDependence = uBase.m_uDependence
                 /\ Len(objects.m_uValues) = Len(uBase.m_uValues)
                 /\ \A k \in 1..Len(uBase.m_uValues) :
                       FracEq(FracMul(objects.m_uValues[k], handles[j + 1]), FracMul(uBase.m_uValues[k], handles[i + 1]))
       /\ input.m_uDependence = NoDep =>
             /\ objects.m_uDependence = NoDep
             /\ Len(objects.m_uValues) = 1
             /\ FracEq(FracMul(objects.m_uValues[1], handles[objects.m_iTime + 1]),
                       FracMul(input.m_uValues[1], handles[input.m_iTime + 1]))

\* a constant Slice at the last index rolled back to the first in two stages, on a curve that is not flat
C23_Witness ==
    /\ objects.kind = "Slice" /\ lastOp.op = "rollback" /\ ~failed /\ nOps = 2
    /\ input.m_uDependence = NoDep /\ input.m_iTime = 2 /\ input.m_uValues[1] # <<0, 1>>
    /\ output.before.m_iTime = 1 /\ objects.m_iTime = 0
    /\ handles[3] # handles[1]
    /\ objects.m_uValues # input.m_uValues

----------------------------------------------------------------------------
(* The sizes of the arrays of cflBrownian::Model. The control flow of the
   constructor and of rollback reads the sizes, the times and the variances
   but no value of a Slice, so the Slice in objects is its header and the
   length iLen of its array. input.rRollback is the scheme given to the model:
   NGaussRollback::fft2 () or NGaussRollback::expl (). *)

\* std::log2 (m_iSize) == std::round (std::log2 (m_iSize))
RECURSIVE IsPow2(_)
IsPow2(n) == n >= 1 /\ (n = 1 \/ (n % 2 = 0 /\ IsPow2(n \div 2)))

\* the assertions of FFT2::FFT2 (iSize, dH, dVar)
FFT2Pre(iSize, dH, dVar) == iSize > 0 /\ dH > 0 /\ dVar > 0 /\ IsPow2(iSize)

\* the assertions of uRoll.assign (iSize, dH, dVar) for the scheme of the model
AssignPre(rRollback, iSize, dH, dVar) ==
    IF rRollback = "fft2" THEN FFT2Pre(iSize, dH, dVar) ELSE (iSize >= 3 => dVar > 0 /\ dH > 0)

\* the widths of the interval of initial values: none, 1 and a width that is no multiple of the steps
ShapeIntervals == {0, Res, 2 * Res + 1}

ShapeInputs ==
    [rSize : GridSizes, log4 : {0, Res}, dH1 : GridH1, iUniformSteps : GridUniformSteps,
     rVar : CtorVars, rEventTimes : GridEventTimes, dInterval : ShapeIntervals, rRollback : {"fft2", "expl"}]

InitShape == input \in ShapeInputs /\ model = NoModel /\ Alone /\ handles = << >> /\ objects = [kind |-> "none"]

\* Slice a (&rModel, iTime, dValue), or a = rModel.state (iTime, 0)
NewShape ==
    /\ ~failed /\ model # NoModel /\ objects.kind = "none"
    /\ \E iTime \in TimeIndexes, bState \in BOOLEAN :
          /\ objects' = [kind |-> "Slice", m_iTime |-> iTime,
                         m_uDependence |-> IF bState THEN Dep0 ELSE NoDep,
                         iLen |-> IF bState THEN model.m_uSize[iTime + 1] ELSE 1]
          /\ lastOp' = [op |-> "slice", s |-> Ret]
          /\ UNCHANGED <<model, target, slice, heap, owner, pc, calls, failed, nOps, input, output, handles>>

\* the first assertion of a.rollback (iTime) that fails, "same" for a call that
\* does not reach the model, "done" for a rollback that returns
RollbackEnds(S, iTime) ==
    LET dVar == RollbackVar(S, iTime)
    IN  IF iTime > S.m_iTime THEN "precondition"
        ELSE IF iTime = S.m_iTime THEN "same"
        ELSE IF ~Exceeds(dVar, VAR_EPS) THEN "var"
        ELSE IF S.iLen > 1 /\ ~(10000 * model.m_dH * model.m_dH <= 15001 * dVar * Res) THEN "steps"
        ELSE IF S.iLen > 1 /\ ~AssignPre(input.rRollback, S.iLen, model.m_dH, dVar) THEN "assign"
        ELSE IF BrownianNumberOfNodes(iTime, S.m_uDependence) > S.iLen THEN "window"
        ELSE "done"

\* a.rollback (iTime): output is the call, with the grid before and after and the offset iI of the window
RollbackShape ==
    /\ ~failed /\ objects.kind = "Slice" /\ nOps < MaxOps
    /\ \E iTime \in TimeIndexes :
          LET S == objects
              ends == RollbackEnds(S, iTime)
              iSize1 == BrownianNumberOfNodes(iTime, S.m_uDependence)
          IN  /\ lastOp' = [op |-> "rollback", s |-> Ret]
              /\ nOps' = nOps + 1
              /\ failed' = (ends \notin {"same", "done"})
              /\ output' = [ends |-> ends, iTime |-> iTime, from |-> S.m_iTime, iSize |-> S.iLen, iSize1 |-> iSize1,
                            bRollback |-> (S.iLen > 1), dVar |-> RollbackVar(S, iTime),
                            iI |-> IF iSize1 < S.iLen THEN (S.iLen - iSize1) \div 2 ELSE 0]
              /\ objects' = IF ends = "done"
                            THEN [S EXCEPT !.m_iTime = iTime, !.iLen = IF iSize1 < S.iLen THEN iSize1 ELSE S.iLen]
                            ELSE S
              /\ UNCHANGED <<model, target, slice, heap, owner, pc, calls, input, handles>>

NextShape == Construct \/ NewShape \/ RollbackShape

SpecShape == InitShape /\ [][NextShape]_vars

\* n is 4, 8, 16, ...: halving it leads to 4
RECURSIVE Pow2AtLeast4(_)
Pow2AtLeast4(n) == n = 4 \/ (n > 4 /\ n % 2 = 0 /\ Pow2AtLeast4(n \div 2))

\* C24: under the size policy Grid::size2 every grid size of the model is a
\* power of two, at least 4, and every array that rollback passes to the
\* Gaussian rollback has a length that is a power of two, so that the
\* assertion of FFT2 on the size never fails.
C24_PowerOfTwo ==
    input.rSize = "size2" =>
       /\ model # NoModel => \A i \in 1..Len(model.m_uSize) : Pow2AtLeast4(model.m_uSize[i])
       /\ lastOp.op \in {"constructed", "postcondition"} => \A i \in 1..Len(output) : Pow2AtLeast4(output[i])
       /\ (lastOp.op = "rollback" /\ output.ends \notin {"precondition", "same", "var", "steps"} /\ output.bRollback) =>
             /\ Pow2AtLeast4(output.iSize)
             /\ output.ends # "assign"

\* a rollback with FFT2 on a grid of size2 that is larger at the later time
C24_Witness ==
    /\ input.rSize = "size2" /\ input.rRollback = "fft2"
    /\ lastOp.op = "rollback" /\ output.ends = "done" /\ output.bRollback
    /\ output.iSize > output.iSize1 /\ output.iSize1 >= 4

\* C25: with the step of Grid::step (dStepQuality, iUniformSteps),
\* iUniformSteps >= 1, the step h of the model satisfies
\* h^2 <= 1.5001 (totalVar[i] - totalVar[j]) for all time indexes i > j, so
\* that the assertion of rollback on "at least one uniform step" never fails.
C25_UniformStep ==
    /\ model # NoModel =>
          \A i \in 1..Len(model.m_uTotalVar) : \A j \in 1..(i - 1) :
             10000 * model.m_dH * model.m_dH <= 15001 * (model.m_uTotalVar[i] - model.m_uTotalVar[j]) * Res
    /\ lastOp.op = "rollback" => output.ends # "steps"

\* a rollback of an array between two adjacent times on a grid whose step is the one the variance allows
C25_Witness ==
    /\ lastOp.op = "rollback" /\ output.ends = "done" /\ output.bRollback
    /\ output.from = output.iTime + 1
    /\ model.m_dH < input.dH1
    /\ output.dVar = minVar(model.m_uTotalVar)

\* twice the state coordinate of node k (from 0) of a grid of iSize nodes with step dH
Node2(iSize, dH, k) == -(dH * (iSize - 1)) + 2 * dH * k

\* C26: after the rollback of a state-dependent Slice from index i to j < i
\* entry k of the result is the value at the state coordinate of node k of
\* state (j, 0): the first node that the window keeps,
\* -h (N_i - 1)/2 + ((N_i - N_j)/2) h, is the first node -h (N_j - 1)/2 of the
\* grid of index j, for all grid sizes under Grid::size and under Grid::size2.
C26_Aligned ==
    (lastOp.op = "rollback" /\ output.ends = "done" /\ output.bRollback) =>
       \A k \in 0..(output.iSize1 - 1) :
          Node2(output.iSize, model.m_dH, output.iI + k) = Node2(output.iSize1, model.m_dH, k)

\* C27: at every event time the distance (N - 1) h between the first and the
\* last node of the grid is at least dInterval + width (totalVar); in
\* particular the grid of the initial time, on which the interpolated function
\* of a Slice is defined, covers the interval [-dInterval/2, dInterval/2].
C27_Covers ==
    model # NoModel =>
       /\ \A i \in 1..Len(model.m_uSize) :
             (model.m_uSize[i] - 1) * model.m_dH >= input.dInterval + widthGauss(input.log4, model.m_uTotalVar[i])
       /\ (model.m_uSize[1] - 1) * model.m_dH >= input.dInterval

----------------------------------------------------------------------------
(* interpolate (slice), interpolate (slice, iStates) and atOrigin (slice) on the Slice in objects *)

\* Brownian::addDependence on the header and the length of a Slice
AddDependenceShape(S, rDependence) ==
    IF Len(S.m_uDependence) = 0 /\ Len(rDependence) = 1
    THEN [S EXCEPT !.m_uDependence = rDependence, !.iLen = model.m_uSize[S.m_iTime + 1]]
    ELSE S

\* the preconditions of interpolate (rSlice, rState) for rState = 0, ..., iStates - 1
InterpolateStatesPre(S, iStates) ==
    /\ BrownianNumberOfStates >= Len(S.m_uDependence)
    /\ iStates > 0
    /\ iStates - 1 < BrownianNumberOfStates

\* Model::interpolate (rSlice): Interp::assign copies as many values as the grid
\* of the time index has nodes from the array of the Slice
InterpolateReads(S) ==
    [reached |-> TRUE, iArg |-> model.m_uSize[S.m_iTime + 1], iVal |-> S.iLen,
     ends |-> IF S.iLen < model.m_uSize[S.m_iTime + 1] THEN "undefined" ELSE "returned"]

NotReached(ends) == [reached |-> FALSE, iArg |-> 0, iVal |-> 0, ends |-> ends]

\* what a call of one of the three functions does with the Slice
InterpolateCall(entry, S, iStates) ==
    CASE entry = "interpolate" -> InterpolateReads(S)
      [] entry = "states" -> IF InterpolateStatesPre(S, iStates)
                             THEN InterpolateReads(AddDependenceShape(S, Dep0))
                             ELSE NotReached("precondition")
      [] entry = "atOrigin" -> IF Len(S.m_uDependence) = 0 THEN NotReached("returned") ELSE InterpolateReads(S)

InterpolateEntries == {"interpolate", "states", "atOrigin"}

\* a call of one of the three functions; a read past the end of the array is
\* undefined: the program stops or goes on with whatever it read
InterpolateShape ==
    /\ ~failed /\ objects.kind = "Slice" /\ nOps < MaxOps
    /\ \E entry \in InterpolateEntries, iStates \in 0..2 :
          LET call == InterpolateCall(entry, objects, iStates)
          IN  /\ entry # "states" => iStates = 1
              /\ output' = call @@ [entry |-> entry, iStates |-> iStates]
              /\ lastOp' = [op |-> "interpolate", s |-> Ret]
              /\ nOps' = nOps + 1
              /\ failed' \in (CASE call.ends = "precondition" -> {TRUE}
                                [] call.ends = "undefined" -> BOOLEAN
                                [] OTHER -> {FALSE})
              /\ UNCHANGED <<model, target, slice, heap, owner, pc, calls, input, handles, objects>>

NextInterpolate == Construct \/ NewShape \/ RollbackShape \/ InterpolateShape

SpecInterpolate == InitShape /\ [][NextInterpolate]_vars

\* C28: every call that reaches interpolate of the Brownian model, through
\* interpolate (slice), interpolate (slice, states) or atOrigin (slice), passes
\* a Slice with as many values as the grid of its time index has nodes, also
\* when the Slice of the caller is constant, so that the interpolation never
\* reads more values than the Slice holds.
C28_FullArray ==
    (lastOp.op = "interpolate" /\ output.reached) =>
       /\ output.iVal = model.m_uSize[objects.m_iTime + 1]
       /\ output.ends # "undefined"

----------------------------------------------------------------------------
(* The chain with no explicit or no implicit steps *)

\* the sum of the variances of the stages from the k-th on
RECURSIVE StageVarSum(_, _)
StageVarSum(stages, k) ==
    IF k > Len(stages) THEN <<0, 1>> ELSE FracAdd(stages[k].scheme.m_dVar, StageVarSum(stages, k + 1))

\* C29: for every chain with nExpl >= 0 explicit and nImpl >= 0 implicit steps,
\* zero included, every grid of 3 or more points, h > 0 and var > 0, assign
\* completes without a failed assertion, and the variances of the stages that
\* rollback then executes sum to var.
C29_Completes ==
    /\ (lastOp.op = "assign" /\ objects.kind = "Chain" /\ input.iSize >= 3 /\ input.dH > 0 /\ Pos(input.dVar)) => ~failed
    /\ (lastOp.op = "rollback" /\ ~failed /\ objects.kind = "Chain" /\ handles # << >>) =>
          ((handles.m_iSize >= 3 /\ handles.m_dH > 0 /\ Pos(handles.m_dVar)) =>
              FracEq(StageVarSum(ChainStages(objects), 1), handles.m_dVar))

\* ---------------------------------------------------------------------------
\* Mirror symmetry of the smoothed indicators
\* ---------------------------------------------------------------------------

\* the array v read from its last entry to its first
Reversed(v) == [k \in 1..Len(v) |-> v[Len(v) + 1 - k]]

\* C30: for the linear and the quadratic indicator the result at interior nodes
\* is mirror-symmetric: the indicator of the reversed array of values equals, at
\* every interior node, the reversed result, so an upward and a downward
\* crossing at the same position give the neighbouring nodes the same values.
C30_Mirror ==
    (lastOp.op = "indicator" /\ input.uInd \in {"linear", "quadratic"}) =>
        \A k \in 2..(Len(output) - 1) :
            Indicator(input.uInd, Reversed(input.rValues), input.dBarrier, One)[Len(output) + 1 - k] = output[k]

====
